---------------------------- MODULE Spec2Model ----------------------------
(***************************************************************************)
(* A model of the card identification engine of llc-scanner: the           *)
(* perceptual-hash index (identifier/matcher.py), the embedding index      *)
(* (identifier/embedding_matcher.py), the dispatch between them            *)
(* (main.py, gui/app.py) and the stores they read (db/database.py).        *)
(*                                                                         *)
(* Scaling.  A stored hash is a hex string; one hex digit of the program   *)
(* (4 bits) is one binary digit "0"/"1" here (1 bit), and one byte is      *)
(* BitsPerByte = 2 digits.  A fused distance accumulated/_WEIGHT_SUM is    *)
(* kept as its exact numerator `accumulated` (distances are "in fifths").  *)
(* A cosine similarity is an integer number of 1e-5 units.                 *)
(***************************************************************************)
EXTENDS Integers, Sequences, FiniteSets, TLC

(***************************************************************************)
(* Bounds of the model.                                                    *)
(***************************************************************************)
BytesPerHash == 2
SmallRows == 2
ExtraRows == 1
MaxList == 2
NumCards == 2
NumImages == 1
LabelMargin == 1
MaxModelCalls == 2
MaxLevel == 3
WorkCols == 4

(***************************************************************************)
(* Program constants (src/config.py).                                      *)
(***************************************************************************)
TOP_K_MATCHES == 5
CONFIDENCE_HIGH == 15
CONFIDENCE_MED == 40
EMBEDDING_CONFIDENCE_HIGH == 90000
EMBEDDING_CONFIDENCE_MED == 75000
BitsPerByte == 2
EMBEDDING_DIM == 768
FloatBytes == 4
NumCrops == 4
UpdateCardDetailsParams == 4
EnrichUpdateArgs == 5

(***************************************************************************)
(* State.                                                                  *)
(*   h_*  one run of the hash pipeline of identify_card on given inputs    *)
(*        (specification SpecHash);                                        *)
(*   y_*  one hybrid selection on a pair of result lists (SpecHybrid);     *)
(*   db_*, m_*, q_*, w_*  the process: the stores, the module-level        *)
(*        caches, the thread that identifies and the setup worker thread   *)
(*        (Spec), and r_* two calls in a row on one input (SpecRepeat).    *)
(***************************************************************************)
VARIABLES
    h_table,      \* the card_hashes table: rows [card_id, hash_type, hash_value]
    h_scan,       \* scan_hashes of the query image: hash type -> bits
    h_prio,       \* what this build's argpartition/argsort do with equal keys
    h_meta,       \* the card ids that have a row in the cards table
    h_pc,         \* "stored", "built", "scored", "ranked"
    h_index,      \* the _HashIndex built from h_table
    h_distances,  \* the array returned by score (numerators)
    h_top,        \* top_indices
    h_results     \* the candidate list

VARIABLES
    y_ml,     \* ml_results: the list identify_card_embedding returned
    y_hash,   \* hash_results: the list identify_card returned
    y_pc,     \* "called", "selected"
    y_out     \* results

VARIABLES
    db_hashes,    \* table card_hashes
    db_embs,      \* table card_embeddings: rows [card_id, embedding]
    db_details,   \* table cards: card -> "absent", or what variants/set_total/
                  \* types/variants_detailed hold: "none", "partial", "full"
    m_index,      \* matcher._index (None or the index)
    m_art_index,  \* matcher._art_index
    m_faiss,      \* embedding_matcher._faiss_index (None or the vectors)
    m_ids,        \* embedding_matcher._index_card_ids
    m_failed,     \* enricher._failed_ids
    m_prio,       \* what this build's sorts and FAISS do with equal keys
    m_auto_detect,  \* matcher.STICKER_AUTO_DETECT, as the settings leave it
    m_emb_read    \* history: a call has read _faiss_index since the last reload

VARIABLES
    q_pc,         \* "idle", "emb1", "emb2", "emb3", "hash1", "hash2", "hash3", "done"
    q_in,         \* the call: [mode, img, opts]
    q_faiss,      \* identify_card_embedding: index
    q_ids,        \* identify_card_embedding: card_ids
    q_index,      \* identify_card: index
    q_art,        \* identify_card: the _art_index object read (None if not read)
    q_ml,         \* ml_results
    q_hash,       \* hash_results
    q_out,        \* what _run_identify returned
    q_outcome,    \* "none", "returned", "raised"
    q_fetches     \* history: the calls of _fetch_full_card made by this call, in
                  \* order: [card_id, ok], ok when the API answered

VARIABLES
    w_pc,         \* "idle", "hashing", "reload_art", "embedding", "reload_ids"
    w_pending,    \* the cards still to be hashed / embedded
    w_loaded      \* reload_embedding_index: the card_ids not yet assigned

VARIABLES
    r_calls,      \* SpecRepeat: calls started
    r_prev        \* SpecRepeat: outcome, result and fetches of the first call

VARIABLES
    l_distance,    \* a fused distance (numerator, in 1/_WEIGHT_SUM)
    l_similarity,  \* a cosine similarity (in 1e-5)
    l_hash_label,  \* what matcher._confidence_label returned ("none" before)
    l_emb_label    \* what embedding_matcher._confidence_label returned

VARIABLES
    f_table,      \* table card_hashes
    f_mask,       \* identify_card: sticker_mask_px (None or a rectangle)
    f_auto,       \* identify_card: auto_detect (None, or True / False)
    f_default,    \* config.STICKER_AUTO_DETECT as the settings leave it
    f_img,        \* the query image
    f_pc,         \* "called", "art", "scored"
    f_art,        \* art_idx before the emptiness test (None if not read)
    f_full,       \* full_distances
    f_art_distances,  \* art_distances (<<>> when not computed)
    f_distances   \* distances

VARIABLES
    g_threads,    \* the threads of the process that call _get_model
    g_cuda,       \* torch.cuda.is_available()
    g_model,      \* embedding_computer._model (None or a model object's id)
    g_device,     \* embedding_computer._device (None or a device)
    g_objs,       \* the model objects created so far: id -> [eval, device]
    g_pc,         \* thread -> where it is in _get_model
    g_ret,        \* thread -> what its last call returned (None if nothing)
    g_calls       \* thread -> calls started

VARIABLES
    p_pic,          \* the image file: [w, h, px], px the brightness of its columns
    p_quad,         \* what _detect_card_quad finds on it (None or the columns)
    p_found,        \* what detect_sticker finds on the extracted card (None or a region)
    p_mask,         \* sticker_mask_px (None or a rectangle <<x, y, bw, bh>>)
    p_auto,         \* _auto: auto_detect, or STICKER_AUTO_DETECT when it is None
    p_pc,           \* "file", "indexed", "hashed", "crops", "cropped", "done"
    p_stored_code,  \* compute_hashes_for_image: the code stored for the file
    p_stored_vec,   \* compute_embedding_for_image: the vector stored (unnormalised)
    p_scan_code,    \* identify_card: the code of the scan
    p_img,          \* _embed_with_tta: img_bgr
    p_i,            \* _embed_with_tta: i
    p_tta_mask,     \* _embed_with_tta: _sticker_mask_518
    p_arrays,       \* _embed_with_tta: arrays
    p_query_vec,    \* _embed_with_tta: the sum of the crops' embeddings
    p_log           \* history: the calls of detect_sticker and inpaint_sticker

VARIABLES
    c_hashes,      \* table card_hashes of a catalogue
    c_embs,        \* table card_embeddings of a catalogue
    c_hash_built,  \* _HashIndex.build() has run
    c_emb_built,   \* _load_embedding_index() has run
    c_hash_ids,    \* _index.card_ids
    c_emb_ids      \* _index_card_ids

catalogVars == <<c_hashes, c_embs, c_hash_built, c_emb_built, c_hash_ids, c_emb_ids>>

\* _embed_with_tta, the averaging of the crop embeddings
VARIABLES
    n_vecs,   \* vecs: the model's output for each crop
    n_avg,    \* avg, as [num, den]: the vector num / den
    n_out,    \* the returned vector, as [num, den2]: num / sqrt(den2)
    n_pc      \* "idle", "embedded", "averaged", "returned"

normVars == <<n_vecs, n_avg, n_out, n_pc>>

\* preprocess_for_hashing, the card extraction
VARIABLES
    x_img,         \* the decoded image: [w, h]
    x_contours,    \* what cv2.findContours returns for each binarisation
    x_k,           \* the binarisation _detect_card_quad tries next
    x_candidates,  \* candidates: (contour area, pts)
    x_out,         \* card_bgr: [kind, w, h], kind "rectified", "crop" or "raised"
    x_pc           \* "idle", "detect", "done"

extractVars == <<x_img, x_contours, x_k, x_candidates, x_out, x_pc>>

\* preprocess_for_hashing, the auto-detection step, and detect_sticker
VARIABLES
    s_card,       \* card_bgr.shape: [w, h]
    s_manual,     \* sticker_mask_px (None or a rectangle)
    s_auto,       \* _auto
    s_contours,   \* what cv2.findContours returns in detect_sticker
    s_k,          \* the contour the loop looks at next
    s_best,       \* best: None or (x, y, bw, bh)
    s_best_score, \* best_score, as [num, den]
    s_mask,       \* auto_mask: None or the rectangle set to 255
    s_inpainted,  \* the region inpaint_sticker was called with, if it was
    s_pc          \* "idle", "extracted", "loop", "done"

stickerVars == <<s_card, s_manual, s_auto, s_contours, s_k, s_best, s_best_score,
                 s_mask, s_inpainted, s_pc>>

hashVars == <<h_table, h_scan, h_prio, h_meta, h_pc, h_index, h_distances,
              h_top, h_results>>
hybridVars == <<y_ml, y_hash, y_pc, y_out>>
dbVars == <<db_hashes, db_embs, db_details>>
moduleVars == <<m_index, m_art_index, m_faiss, m_ids, m_failed, m_prio,
               m_auto_detect, m_emb_read>>
queryVars == <<q_pc, q_in, q_faiss, q_ids, q_index, q_art, q_ml, q_hash, q_out,
               q_outcome, q_fetches>>
workerVars == <<w_pc, w_pending, w_loaded>>
repeatVars == <<r_calls, r_prev>>
processVars == <<dbVars, moduleVars, queryVars, workerVars, repeatVars>>
labelVars == <<l_distance, l_similarity, l_hash_label, l_emb_label>>
fuseVars == <<f_table, f_mask, f_auto, f_default, f_img, f_pc, f_art, f_full,
              f_art_distances, f_distances>>
loaderVars == <<g_threads, g_cuda, g_model, g_device, g_objs, g_pc, g_ret, g_calls>>
pipelineVars == <<p_pic, p_quad, p_found, p_mask, p_auto, p_pc, p_stored_code,
                  p_stored_vec, p_scan_code, p_img, p_i, p_tta_mask, p_arrays, p_query_vec,
                  p_log>>
unitVars == <<labelVars, fuseVars, loaderVars, pipelineVars, catalogVars, normVars, extractVars, stickerVars>>
othersOfLabel == <<fuseVars, loaderVars, pipelineVars, catalogVars, normVars, extractVars, stickerVars>>
othersOfFuse == <<labelVars, loaderVars, pipelineVars, catalogVars, normVars, extractVars, stickerVars>>
othersOfLoader == <<labelVars, fuseVars, pipelineVars, catalogVars, normVars, extractVars, stickerVars>>
othersOfPipeline == <<labelVars, fuseVars, loaderVars, catalogVars, normVars, extractVars, stickerVars>>
othersOfCatalog == <<labelVars, fuseVars, loaderVars, pipelineVars, normVars, extractVars, stickerVars>>
othersOfNorm == <<labelVars, fuseVars, loaderVars, pipelineVars, catalogVars, extractVars, stickerVars>>
othersOfExtract == <<labelVars, fuseVars, loaderVars, pipelineVars, catalogVars, normVars, stickerVars>>
othersOfSticker == <<labelVars, fuseVars, loaderVars, pipelineVars, catalogVars, normVars, extractVars>>
vars == <<hashVars, hybridVars, processVars, unitVars>>

\* The threads that reach _get_model: the identify thread (through
\* _embed_with_tta) and the setup worker (through compute_all_embeddings).
Threads == {"identify", "embed"}

HASH_TYPES == <<"phash", "ahash", "dhash", "whash">>
ART_HASH_TYPES == <<"phash_art", "ahash_art", "dhash_art", "whash_art">>
EXCLUDED_SET_ID_PREFIXES == << <<"A">>, <<"B">>, <<"P", "-", "A">> >>

HashBits == BytesPerHash * BitsPerByte

Range(s) == {s[i] : i \in DOMAIN s}

Min(a, b) == IF a <= b THEN a ELSE b

RECURSIVE SumSeq(_)
SumSeq(s) == IF s = <<>> THEN 0 ELSE Head(s) + SumSeq(Tail(s))

AllSeqs(S, lo, hi) == UNION {[1..n -> S] : n \in lo..hi}

(***************************************************************************)
(* Text of the stored values.  A text is a sequence of one-character       *)
(* strings; SQL NULL is the record with isnull = TRUE.                     *)
(***************************************************************************)
Text(chars) == [isnull |-> FALSE, chars |-> chars]
Null == [isnull |-> TRUE, chars |-> <<>>]

HexDigits == {"0", "1"}
DigitValue(ch) == IF ch = "1" THEN 1 ELSE 0

\* ASCII lower-casing of the letters the card ids of the model use.
Lower(ch) ==
    CASE ch = "A" -> "a"
      [] ch = "B" -> "b"
      [] ch = "P" -> "p"
      [] ch = "S" -> "s"
      [] OTHER -> ch

\* SQLite's  x LIKE 'p%'  : p is a prefix of x, ASCII case-insensitively.
LikePrefix(x, p) ==
    /\ Len(x) >= Len(p)
    /\ \A i \in 1..Len(p) : Lower(x[i]) = Lower(p[i])

\* _excluded_set_prefix_clause: card_id NOT LIKE 'p%' for every prefix p.
NotExcluded(card_id) ==
    \A k \in DOMAIN EXCLUDED_SET_ID_PREFIXES :
        ~LikePrefix(card_id, EXCLUDED_SET_ID_PREFIXES[k])

\* get_all_hashes(hash_type): the rows of that type, in table order.
get_all_hashes(table, hash_type) ==
    SelectSeq(table, LAMBDA r : r.hash_type = hash_type /\ NotExcluded(r.card_id))

(***************************************************************************)
(* bytes.fromhex: TypeError for a non-string, ValueError for a non-hex     *)
(* digit or an odd number of digits; otherwise the bytes, each a sequence  *)
(* of BitsPerByte bits.                                                    *)
(***************************************************************************)
FromHexOk(v) ==
    /\ ~v.isnull
    /\ \A i \in DOMAIN v.chars : v.chars[i] \in HexDigits
    /\ Len(v.chars) % BitsPerByte = 0

FromHex(v) ==
    [b \in 1..(Len(v.chars) \div BitsPerByte) |->
        [j \in 1..BitsPerByte |-> DigitValue(v.chars[(b - 1) * BitsPerByte + j])]]

ZeroByte == [j \in 1..BitsPerByte |-> 0]
ZeroRow == [b \in 1..BytesPerHash |-> ZeroByte]

\* One row of the matrix: zeros, overwritten by the decoded bytes, truncated
\* or left zero-padded to bytes_per_hash; zeros when decoding raises.
PackedRow(v) ==
    IF FromHexOk(v)
    THEN LET packed == FromHex(v)
         IN  [b \in 1..BytesPerHash |->
                 IF b <= Len(packed) THEN packed[b] ELSE ZeroByte]
    ELSE ZeroRow

IndexOf(seq, x) == CHOOSE i \in DOMAIN seq : seq[i] = x

\* id_to_idx = {cid: i for i, cid in enumerate(card_ids)}: the last row wins.
IdToIdx(card_ids, cid) ==
    CHOOSE i \in DOMAIN card_ids :
        /\ card_ids[i] = cid
        /\ \A j \in DOMAIN card_ids : card_ids[j] = cid => j <= i

\* The matrix of one hash type: for each row of the type (in order) whose
\* card is in the primary ordering, mat[idx] is set; later rows overwrite.
RECURSIVE FillMatrix(_, _, _)
FillMatrix(mat, rows, card_ids) ==
    IF rows = <<>> THEN mat
    ELSE LET row == Head(rows)
         IN  IF row.card_id \in Range(card_ids)
             THEN FillMatrix(
                      [mat EXCEPT ![IdToIdx(card_ids, row.card_id)] =
                          PackedRow(row.hash_value)],
                      Tail(rows), card_ids)
             ELSE FillMatrix(mat, Tail(rows), card_ids)

EmptyIndex == [card_ids |-> <<>>, types |-> <<>>, arrays |-> <<>>]

\* _HashIndex.build(hash_types): arrays[k] is the matrix of types[k].
HashIndexBuild(table, ht_list) ==
    LET primary == get_all_hashes(table, ht_list[1])
        card_ids == [i \in 1..Len(primary) |-> primary[i].card_id]
    IN  IF Len(card_ids) = 0 THEN EmptyIndex
        ELSE [card_ids |-> card_ids,
              types |-> ht_list,
              arrays |-> [k \in DOMAIN ht_list |->
                  FillMatrix([i \in 1..Len(card_ids) |-> ZeroRow],
                             get_all_hashes(table, ht_list[k]), card_ids)]]

is_empty(index) == Len(index.card_ids) = 0

\* ht.removesuffix("_art")
BaseType(ht) ==
    CASE ht = "phash_art" -> "phash"
      [] ht = "ahash_art" -> "ahash"
      [] ht = "dhash_art" -> "dhash"
      [] ht = "whash_art" -> "whash"
      [] OTHER -> ht

WeightUniform(base_ht) == 1

\* _WEIGHTS.get(base_ht, 1.0)
Weight(base_ht) == IF base_ht = "phash" THEN 2 ELSE 1

WEIGHT_SUM == SumSeq([k \in DOMAIN HASH_TYPES |-> Weight(HASH_TYPES[k])])

\* np.packbits of the scan hash's bit array: bits grouped into bytes.
PackBits(bits) ==
    [b \in 1..(Len(bits) \div BitsPerByte) |->
        [j \in 1..BitsPerByte |-> bits[(b - 1) * BitsPerByte + j]]]

Xor(a, b) == IF a = b THEN 0 ELSE 1

\* Mutant of PopcountXor: counts the bytes that differ, not the bits.
PopcountXorBytes(row, scan_packed) ==
    SumSeq([b \in 1..BytesPerHash |-> IF row[b] = scan_packed[b] THEN 0 ELSE 1])

\* popcount of row XOR scan_packed
PopcountXor(row, scan_packed) ==
    SumSeq([b \in 1..BytesPerHash |->
        SumSeq([j \in 1..BitsPerByte |-> Xor(row[b][j], scan_packed[b][j])])])

\* dists of one hash type: one Hamming distance per row.
KindDists(index, k, scan_hashes) ==
    [i \in DOMAIN index.card_ids |->
        PopcountXor(index.arrays[k][i], PackBits(scan_hashes[index.types[k]]))]

\* _HashIndex.score: accumulated (= the returned distance times _WEIGHT_SUM).
score(index, scan_hashes) ==
    [i \in DOMAIN index.card_ids |->
        SumSeq([k \in DOMAIN index.types |->
            IF index.types[k] \in DOMAIN scan_hashes
            THEN KindDists(index, k, scan_hashes)[i] * Weight(BaseType(index.types[k]))
            ELSE 0])]

ConfidenceLabelStrict(dist5) ==
    IF dist5 < CONFIDENCE_HIGH * WEIGHT_SUM THEN "high"
    ELSE IF dist5 < CONFIDENCE_MED * WEIGHT_SUM THEN "medium"
    ELSE "low"

\* _confidence_label(distance), distance = dist5 / _WEIGHT_SUM
confidence_label(dist5) ==
    IF dist5 <= CONFIDENCE_HIGH * WEIGHT_SUM THEN "high"
    ELSE IF dist5 <= CONFIDENCE_MED * WEIGHT_SUM THEN "medium"
    ELSE "low"

(***************************************************************************)
(* np.argpartition(distances, k-1)[:k] followed by np.argsort: the k       *)
(* smallest distances in ascending order.  Both sorts are unstable: NumPy  *)
(* leaves the order (and the choice at the cut) of equal distances open.   *)
(* What a given build does with equal keys is the priority `prio`, a       *)
(* ranking of the rows; the model lets it be any member of TiePriorities.  *)
(***************************************************************************)
Before(distances, prio, i, j) ==
    \/ distances[i] < distances[j]
    \/ distances[i] = distances[j] /\ prio[i] < prio[j]

\* Mutant of TopIndices: sorts the first k rows, without the partial selection.
TopIndicesNoPartition(distances, prio) ==
    LET k == Min(TOP_K_MATCHES, Len(distances))
    IN  [p \in 1..k |->
            CHOOSE i \in 1..k :
                Cardinality({j \in 1..k : Before(distances, prio, j, i)}) = p - 1]

TopIndices(distances, prio) ==
    LET n == Len(distances)
        k == Min(TOP_K_MATCHES, n)
    IN  [p \in 1..k |->
            CHOOSE i \in 1..n :
                Cardinality({j \in 1..n : Before(distances, prio, j, i)}) = p - 1]

\* The result loop of identify_card, without the enrichment: one candidate
\* per selected row whose card has a row in the cards table.
RECURSIVE HashCandidates(_, _, _, _)
HashCandidates(card_ids, distances, top, meta) ==
    IF top = <<>> THEN <<>>
    ELSE LET idx == Head(top)
             rest == HashCandidates(card_ids, distances, Tail(top), meta)
         IN  IF card_ids[idx] \notin meta THEN rest
             ELSE << [card_id |-> card_ids[idx],
                      distance |-> distances[idx],
                      confidence |-> confidence_label(distances[idx])] >> \o rest



(***************************************************************************)
(* Inputs of SpecHash.                                                     *)
(***************************************************************************)
DigitChars == <<"1", "2", "3", "4", "5", "6", "7", "8", "9">>
MaxRows == TOP_K_MATCHES + ExtraRows

\* The id of the i-th card of set "sv": never excluded by a prefix.
CardId(i) == <<"s", "v", "-", DigitChars[i]>>

\* A four-digit code as stored by the current settings: HashBits digits.
StoredCode(c4) == Text([i \in 1..HashBits |-> IF i <= 4 THEN c4[i] ELSE "0"])
\* The same code as the bit array of a scan hash.
ScanBits(c4) == [i \in 1..HashBits |-> IF i <= 4 THEN DigitValue(c4[i]) ELSE 0]

Ones(n) == [i \in 1..n |-> "1"]

\* A profile is what the table holds for one card: <<hash type, value>> pairs.
Uniform(v) == [k \in 1..4 |-> <<HASH_TYPES[k], v>>]
WithAhash(v) ==
    << <<"phash", StoredCode(<<"0", "1", "0", "1">>)>>, <<"ahash", v>>,
       <<"dhash", StoredCode(<<"0", "1", "0", "1">>)>>,
       <<"whash", StoredCode(<<"0", "1", "0", "1">>)>> >>

NonHexValue == Text([i \in 1..HashBits |-> IF i = 2 THEN "g" ELSE "1"])
OddLenValue == Text(Ones(HashBits - 1))
ShortValue == Text(Ones(BitsPerByte))
LongValue == Text(Ones(HashBits + BitsPerByte))
MalformedValues == {NonHexValue, OddLenValue, ShortValue, LongValue, Null}

C0000 == <<"0", "0", "0", "0">>
C1111 == <<"1", "1", "1", "1">>
C0101 == <<"0", "1", "0", "1">>
C0011 == <<"0", "0", "1", "1">>
C1001 == <<"1", "0", "0", "1">>
C0001 == <<"0", "0", "0", "1">>

MissingAhash ==
    << <<"phash", StoredCode(C0101)>>, <<"dhash", StoredCode(C0101)>>,
       <<"whash", StoredCode(C0101)>> >>
MixedProfile ==
    << <<"phash", StoredCode(C1111)>>, <<"ahash", StoredCode(C0000)>>,
       <<"dhash", StoredCode(C0000)>>, <<"whash", StoredCode(C0000)>> >>
NullPhash ==
    << <<"phash", Null>>, <<"ahash", StoredCode(C0101)>>,
       <<"dhash", StoredCode(C0101)>>, <<"whash", StoredCode(C0101)>> >>

LargeProfiles == {Uniform(StoredCode(C0000)), Uniform(StoredCode(C1111))}
SmallProfiles ==
    LargeProfiles \cup {Uniform(StoredCode(C0101)), MissingAhash, MixedProfile, NullPhash}
        \cup {WithAhash(v) : v \in MalformedValues}

\* The rows of the table for the cards 1..Len(profiles), card after card.
RECURSIVE TableOf(_, _)
TableOf(profiles, first) ==
    IF profiles = <<>> THEN <<>>
    ELSE [i \in DOMAIN Head(profiles) |->
             [card_id |-> CardId(first),
              hash_type |-> Head(profiles)[i][1],
              hash_value |-> Head(profiles)[i][2]]]
         \o TableOf(Tail(profiles), first + 1)

\* The five-card index of the end-to-end example: four-digit codes.
ExampleProfiles ==
    << Uniform(Text(C0000)), Uniform(Text(C1111)), Uniform(Text(C0101)),
       Uniform(Text(C0011)), Uniform(Text(C1001)) >>
ExampleTable == TableOf(ExampleProfiles, 1)
ExampleScan == [ht \in Range(HASH_TYPES) |-> ScanBits(C0001)]

MixedScan ==
    [ht \in Range(HASH_TYPES) |->
        IF ht = "phash" THEN ScanBits(C1111) ELSE ScanBits(C0011)]

HashTables ==
    {TableOf(ps, 1) : ps \in AllSeqs(SmallProfiles, 0, SmallRows)}
        \cup {TableOf(ps, 1) : ps \in AllSeqs(LargeProfiles, SmallRows + 1, MaxRows)}
        \cup {ExampleTable}

Identity == [i \in 1..MaxRows |-> i]
Reversed == [i \in 1..MaxRows |-> MaxRows + 1 - i]
Rotated == [i \in 1..MaxRows |-> (i % MaxRows) + 1]
TiePriorities == {Identity, Reversed, Rotated}

CardsOf(table) == {table[i].card_id : i \in DOMAIN table}

\* index = _get_index(): the first call builds the index from the table.
HBuild ==
    /\ h_pc = "stored"
    /\ h_index' = HashIndexBuild(h_table, HASH_TYPES)
    /\ h_pc' = "built"
    /\ UNCHANGED <<h_table, h_scan, h_prio, h_meta, h_distances, h_top, h_results>>
    /\ UNCHANGED <<hybridVars, processVars, unitVars>>

\* if index.is_empty(): return []
HEmpty ==
    /\ h_pc = "built"
    /\ is_empty(h_index)
    /\ h_results' = <<>>
    /\ h_pc' = "ranked"
    /\ UNCHANGED <<h_table, h_scan, h_prio, h_meta, h_index, h_distances, h_top>>
    /\ UNCHANGED <<hybridVars, processVars, unitVars>>

\* full_distances = index.score(scan_hashes)
HScore ==
    /\ h_pc = "built"
    /\ ~is_empty(h_index)
    /\ h_distances' = score(h_index, h_scan)
    /\ h_pc' = "scored"
    /\ UNCHANGED <<h_table, h_scan, h_prio, h_meta, h_index, h_top, h_results>>
    /\ UNCHANGED <<hybridVars, processVars, unitVars>>

\* the partial sort and the result loop
HRank ==
    /\ h_pc = "scored"
    /\ h_top' = TopIndices(h_distances, h_prio)
    /\ h_results' = HashCandidates(h_index.card_ids, h_distances, h_top', h_meta)
    /\ h_pc' = "ranked"
    /\ UNCHANGED <<h_table, h_scan, h_prio, h_meta, h_index, h_distances>>
    /\ UNCHANGED <<hybridVars, processVars, unitVars>>

(***************************************************************************)
(* The dispatch of one query between the matchers (specification           *)
(* SpecHybrid): the hybrid branch of run_identify / _run_identify applied  *)
(* to a pair of result lists.                                              *)
(***************************************************************************)

\* round(similarity, 4), in 1e-5 units (ties to even)
Round4(s) ==
    LET q == s \div 10
        r == s % 10
    IN  IF r > 5 \/ (r = 5 /\ q % 2 = 1) THEN (q + 1) * 10 ELSE q * 10

\* embedding_matcher._confidence_label(similarity)
embedding_confidence_label(similarity) ==
    IF similarity >= EMBEDDING_CONFIDENCE_HIGH THEN "high"
    ELSE IF similarity >= EMBEDDING_CONFIDENCE_MED THEN "medium"
    ELSE "low"

\* Mutant of HybridSelect: the threshold test is strict.
HybridSelectStrict(ml_results, hash_results) ==
    IF ml_results # <<>> /\ ml_results[1].distance > EMBEDDING_CONFIDENCE_MED
    THEN ml_results
    ELSE IF hash_results # <<>> THEN hash_results ELSE ml_results

\* if ml_results and ml_results[0]["distance"] >= EMBEDDING_CONFIDENCE_MED:
\*     return ml_results
\* return hash_results if hash_results else ml_results
HybridSelect(ml_results, hash_results) ==
    IF ml_results # <<>> /\ ml_results[1].distance >= EMBEDDING_CONFIDENCE_MED
    THEN ml_results
    ELSE IF hash_results # <<>> THEN hash_results ELSE ml_results

\* Similarities around the threshold, as index.search returns them.
SampleSimilarities == {74994, 74996, 75000, 75010, 90000}
SampleDistances == {0, WEIGHT_SUM}

\* The candidate identify_card_embedding makes of a hit of similarity s.
MlCandidate(c, s) ==
    [card_id |-> CardId(c), distance |-> Round4(s),
     confidence |-> embedding_confidence_label(s)]
HashCandidate(c, d) ==
    [card_id |-> CardId(c), distance |-> d, confidence |-> confidence_label(d)]

\* A result list is in rank order: similarities descending, distances ascending.
MlHits ==
    {l \in AllSeqs((1..MaxList) \X SampleSimilarities, 0, MaxList) :
        \A p, q \in DOMAIN l : p < q => l[p][2] >= l[q][2] /\ l[p][1] # l[q][1]}
MlLists == {[i \in DOMAIN l |-> MlCandidate(l[i][1], l[i][2])] : l \in MlHits}
HashLists ==
    {l \in AllSeqs({HashCandidate(c, d) : c \in 1..MaxList, d \in SampleDistances},
                   0, MaxList) :
        \A p, q \in DOMAIN l :
            p < q => l[p].distance <= l[q].distance /\ l[p].card_id # l[q].card_id}

YSelect ==
    /\ y_pc = "called"
    /\ y_out' = HybridSelect(y_ml, y_hash)
    /\ y_pc' = "selected"
    /\ UNCHANGED <<y_ml, y_hash>>
    /\ UNCHANGED <<hashVars, processVars, unitVars>>

(***************************************************************************)
(* The process (specifications Spec and SpecRepeat): the stores, the       *)
(* module-level caches of the two matchers, one thread that identifies     *)
(* (_identify_worker) and the setup worker thread that recomputes the      *)
(* stores and reloads the caches.                                          *)
(***************************************************************************)
None == <<>>
Some(x) == <<x>>

Cards == {CardId(c) : c \in 1..NumCards}

\* The reference picture of a card as the present settings hash it, as
\* an earlier version hashed it, and its illustration box.
RefCode(c) == IF c % 2 = 1 THEN C0011 ELSE C1001
LegacyCode(c) == IF c % 2 = 1 THEN C0000 ELSE C1111
RefArtCode(c) == IF c % 2 = 1 THEN C0101 ELSE C1111

HashRow(c, ht, code) ==
    [card_id |-> CardId(c), hash_type |-> ht, hash_value |-> StoredCode(code)]

\* compute_hashes_for_image: one record per type of HASH_TYPES.
compute_hashes_for_image(c) ==
    [k \in DOMAIN HASH_TYPES |-> HashRow(c, HASH_TYPES[k], RefCode(c))]

\* What an earlier version left for a card: full-card and art-zone rows.
LegacyRows(c) ==
    [k \in DOMAIN HASH_TYPES |-> HashRow(c, HASH_TYPES[k], LegacyCode(c))]
        \o [k \in DOMAIN ART_HASH_TYPES |-> HashRow(c, ART_HASH_TYPES[k], RefArtCode(c))]

RECURSIVE Flatten(_)
Flatten(seqs) == IF seqs = <<>> THEN <<>> ELSE Head(seqs) \o Flatten(Tail(seqs))

Orders == {p \in [1..NumCards -> 1..NumCards] : \A i, j \in 1..NumCards : p[i] = p[j] => i = j}

RecomputedStores ==
    {Flatten([i \in 1..NumCards |-> compute_hashes_for_image(p[i])]) : p \in Orders}
CurrentHashes == Flatten([c \in 1..NumCards |-> compute_hashes_for_image(c)])
LegacyHashes == Flatten([c \in 1..NumCards |-> LegacyRows(c)])

\* upsert_hashes_batch: INSERT OR REPLACE on the key (card_id, hash_type).
upsert_hashes_batch(table, batch) ==
    SelectSeq(table, LAMBDA r :
        \A i \in DOMAIN batch :
            ~(batch[i].card_id = r.card_id /\ batch[i].hash_type = r.hash_type))
        \o batch

\* The hashes of the query image and of its art crop.
ImageCode(img) == IF img % 2 = 1 THEN C0011 ELSE C1001
ImageArtCode(img) == IF img % 2 = 1 THEN C0101 ELSE C1111
ScanHashes(img) == [ht \in Range(HASH_TYPES) |-> ScanBits(ImageCode(img))]
ArtScanHashes(img) == [ht \in Range(ART_HASH_TYPES) |-> ScanBits(ImageArtCode(img))]

\* identify_card, before scoring: the emptiness test comes first, then the
\* image is read (img = 0 is a file cv2.imread cannot decode).
\* Mutant of HashEntry: reads the image before looking at the index.
HashEntryReadFirst(index, img) ==
    IF img = 0 THEN "raise" ELSE IF is_empty(index) THEN "empty" ELSE "score"

HashEntry(index, img) ==
    IF is_empty(index) THEN "empty" ELSE IF img = 0 THEN "raise" ELSE "score"

\* art_distances, where identify_card computes them
ArtDistances(index, art, img) ==
    IF art # None /\ ~is_empty(art[1]) /\ Len(art[1].card_ids) = Len(index.card_ids)
    THEN score(art[1], ArtScanHashes(img))
    ELSE <<>>

FusedDistancesArtOnly(index, art, img) ==
    LET full_distances == score(index, ScanHashes(img))
    IN  IF art # None /\ ~is_empty(art[1]) /\ Len(art[1].card_ids) = Len(index.card_ids)
        THEN score(art[1], ArtScanHashes(img))
        ELSE full_distances

\* distances: np.minimum with the art-zone distances when the art index is
\* not empty and has as many rows as the full-card index.
FusedDistances(index, art, img) ==
    LET full_distances == score(index, ScanHashes(img))
    IN  IF art # None /\ ~is_empty(art[1]) /\ Len(art[1].card_ids) = Len(index.card_ids)
        THEN LET art_distances == score(art[1], ArtScanHashes(img))
             IN  [i \in DOMAIN full_distances |->
                     Min(full_distances[i], art_distances[i])]
        ELSE full_distances

(***************************************************************************)
(* Embeddings.  A vector of _EMBEDDING_DIM floats is a pair of integers    *)
(* of Euclidean norm 25 (a unit vector in units of 1/25); a stored blob    *)
(* is its length in bytes and the vector it decodes to.                    *)
(***************************************************************************)
RefEmbedding(c) == IF c % 2 = 1 THEN <<25, 0>> ELSE <<0, 25>>

GoodBlob(c) == [nbytes |-> EMBEDDING_DIM * FloatBytes, vec |-> RefEmbedding(c)]
OldFormatBlob(c) == [nbytes |-> (EMBEDDING_DIM \div 2) * FloatBytes, vec |-> RefEmbedding(c)]
TruncatedBlob(c) == [nbytes |-> EMBEDDING_DIM * FloatBytes - 1, vec |-> RefEmbedding(c)]

EmbRow(c, blob) == [card_id |-> CardId(c), embedding |-> blob]

ReembeddedStore == [c \in 1..NumCards |-> EmbRow(c, GoodBlob(c))]
OldFormatStore ==
    [c \in 1..NumCards |->
        IF c = 1 THEN EmbRow(c, OldFormatBlob(c)) ELSE EmbRow(c, GoodBlob(c))]
TruncatedStore ==
    [c \in 1..NumCards |->
        IF c = 1 THEN EmbRow(c, GoodBlob(c)) ELSE EmbRow(c, TruncatedBlob(c))]

\* upsert_embeddings_batch: INSERT OR REPLACE on the key card_id.
upsert_embeddings_batch(table, row) ==
    Append(SelectSeq(table, LAMBDA r : r.card_id # row.card_id), row)

\* get_all_embeddings
get_all_embeddings(table) == SelectSeq(table, LAMBDA r : NotExcluded(r.card_id))

\* np.frombuffer(..., dtype=np.float32) raises ValueError when the buffer
\* size is not a multiple of the element size.
FromBufferOk(blob) == blob.nbytes % FloatBytes = 0

\* _load_embedding_index raises when it meets a blob it cannot decode.
LoadRaises(table) ==
    \E i \in DOMAIN get_all_embeddings(table) :
        ~FromBufferOk(get_all_embeddings(table)[i].embedding)

\* _load_embedding_index: (index, card_ids), rows of another dimension skipped.
load_embedding_index(table) ==
    LET rows == get_all_embeddings(table)
        kept == SelectSeq(rows, LAMBDA r : r.embedding.nbytes \div FloatBytes = EMBEDDING_DIM)
    IN  IF rows = <<>> \/ kept = <<>>
        THEN [index |-> None, card_ids |-> <<>>]
        ELSE [index |-> Some([i \in DOMAIN kept |-> kept[i].embedding.vec]),
              card_ids |-> [i \in DOMAIN kept |-> kept[i].card_id]]

Dot(a, b) == a[1] * b[1] + a[2] * b[2]

RECURSIVE ISqrtIn(_, _, _)
ISqrtIn(n, lo, hi) ==
    IF lo >= hi THEN lo
    ELSE LET mid == (lo + hi + 1) \div 2
         IN  IF mid * mid <= n THEN ISqrtIn(n, mid, hi) ELSE ISqrtIn(n, lo, mid - 1)

\* The model's output on one crop of the image: the centre crop, and a crop
\* shifted by random.uniform(-0.08, 0.08) to one side or the other.
ModelOutput(img, crop) ==
    IF img % 2 = 1
    THEN CASE crop = "centre" -> <<24, 7>>
           [] crop = "low" -> <<25, 0>>
           [] OTHER -> <<15, 20>>
    ELSE CASE crop = "centre" -> <<7, 24>>
           [] crop = "low" -> <<0, 25>>
           [] OTHER -> <<20, 15>>

\* _embed_with_tta: the sum of the num_crops embeddings when `high` of the
\* num_crops - 1 jittered crops fell to the far side.  (The mean and the
\* sum have the same direction.)
embed_with_tta(img, high) ==
    LET c == ModelOutput(img, "centre")
        l == ModelOutput(img, "low")
        h == ModelOutput(img, "high")
    IN  [k \in 1..2 |-> c[k] + (NumCrops - 1 - high) * l[k] + high * h[k]]

\* The inner product of the normalised query with a stored unit vector,
\* in 1e-5 units; the query is left unnormalised when its norm is 0.
Similarity(query, vec) ==
    LET norm100 == ISqrtIn(10000 * Dot(query, query), 0, 100 * 25 * NumCrops)
    IN  IF norm100 = 0 THEN 0
        ELSE (Dot(query, vec) * 400000) \div norm100

\* index.search(query_matrix, k): the k largest inner products, descending.
Search(matrix, query, prio) ==
    TopIndices([i \in DOMAIN matrix |-> 0 - Similarity(query, matrix[i])], prio)

\* The result loop of identify_card_embedding, without the enrichment.
RECURSIVE EmbCandidates(_, _, _, _, _)
EmbCandidates(card_ids, matrix, query, top, meta) ==
    IF top = <<>> THEN <<>>
    ELSE LET idx == Head(top)
             rest == EmbCandidates(card_ids, matrix, query, Tail(top), meta)
             similarity == Similarity(query, matrix[idx])
         IN  IF idx > Len(card_ids) THEN rest
             ELSE IF card_ids[idx] \notin meta THEN rest
             ELSE << [card_id |-> card_ids[idx],
                      distance |-> Round4(similarity),
                      confidence |-> embedding_confidence_label(similarity)] >> \o rest

(***************************************************************************)
(* enrich_result.  db_details[c] is "absent" when the cards table has no   *)
(* row for c, "none" when variants and set_total are NULL, "partial" when  *)
(* they are cached but types or variants_detailed is missing, "full"       *)
(* otherwise.  fetch_ok is the set of cards the TCGdex API answers for.    *)
(***************************************************************************)
\* update_card_details is called with EnrichUpdateArgs positional arguments
\* and accepts UpdateCardDetailsParams: a TypeError when there are more.
UpdateRaises == EnrichUpdateArgs > UpdateCardDetailsParams

\* Mutant of EnrichOne: _failed_ids is not consulted.
EnrichOneForgetful(cid, details, failed, fetch_ok) ==
    LET d == details[cid]
        refetch == d = "none" \/ d = "partial"
    IN  IF ~refetch
        THEN [raised |-> FALSE, failed |-> failed, details |-> details, shown |-> d,
              fetched |-> FALSE]
        ELSE IF cid \in fetch_ok
        THEN IF UpdateRaises
             THEN [raised |-> TRUE, failed |-> failed, details |-> details, shown |-> d,
                   fetched |-> TRUE]
             ELSE [raised |-> FALSE, failed |-> failed,
                   details |-> [details EXCEPT ![cid] = "full"], shown |-> "full",
                   fetched |-> TRUE]
        ELSE [raised |-> FALSE, failed |-> failed \cup {cid}, details |-> details,
              shown |-> d, fetched |-> TRUE]

\* One candidate: whether the call raised, _failed_ids, the table, the
\* details the result carries, and whether _fetch_full_card was called (a
\* request to the TCGdex API).
EnrichOne(cid, details, failed, fetch_ok) ==
    LET d == details[cid]
        refetch == d = "none" \/ d = "partial"
    IN  IF ~refetch \/ cid \in failed
        THEN [raised |-> FALSE, failed |-> failed, details |-> details, shown |-> d,
              fetched |-> FALSE]
        ELSE IF cid \in fetch_ok
        THEN IF UpdateRaises
             THEN [raised |-> TRUE, failed |-> failed, details |-> details, shown |-> d,
                   fetched |-> TRUE]
             ELSE [raised |-> FALSE, failed |-> failed,
                   details |-> [details EXCEPT ![cid] = "full"], shown |-> "full",
                   fetched |-> TRUE]
        ELSE [raised |-> FALSE, failed |-> failed \cup {cid}, details |-> details,
              shown |-> d, fetched |-> TRUE]

\* The result loop: enrich_result on each candidate in turn; the first
\* exception ends the call.
RECURSIVE EnrichAll(_, _, _, _, _)
EnrichAll(cands, details, failed, fetch_ok, out) ==
    IF cands = <<>>
    THEN [raised |-> FALSE, failed |-> failed, details |-> details, out |-> out,
          fetches |-> <<>>]
    ELSE LET e == EnrichOne(Head(cands).card_id, details, failed, fetch_ok)
             requested == IF e.fetched
                          THEN <<[card_id |-> Head(cands).card_id,
                                  ok |-> Head(cands).card_id \in fetch_ok]>>
                          ELSE <<>>
         IN  IF e.raised
             THEN [raised |-> TRUE, failed |-> e.failed, details |-> e.details, out |-> <<>>,
                   fetches |-> requested]
             ELSE LET rest == EnrichAll(Tail(cands), e.details, e.failed, fetch_ok,
                                Append(out, [card_id |-> Head(cands).card_id,
                                             distance |-> Head(cands).distance,
                                             confidence |-> Head(cands).confidence,
                                             details |-> e.shown]))
                  IN  [rest EXCEPT !.fetches = requested \o @]

Meta(details) == {c \in DOMAIN details : details[c] # "absent"}

(***************************************************************************)
(* The thread that identifies: _run_identify(path) of gui/app.py (and      *)
(* run_identify of main.py) in matcher mode q_in.mode on image q_in.img,   *)
(* with STICKER_AUTO_DETECT as the settings give it.                       *)
(***************************************************************************)
Modes == {"hash", "ml", "hybrid"}
Calls == [mode : Modes, img : 0..NumImages]
NoCall == [mode |-> "hash", img |-> 0]

othersOfQuery == <<hashVars, hybridVars, workerVars, unitVars>>

StartCall(call) ==
    /\ q_in' = call
    /\ q_pc' = IF call.mode = "hash" THEN "hash1" ELSE "emb1"
    /\ q_faiss' = None
    /\ q_ids' = <<>>
    /\ q_index' = EmptyIndex
    /\ q_art' = None
    /\ q_ml' = <<>>
    /\ q_hash' = <<>>
    /\ q_out' = <<>>
    /\ q_outcome' = "none"
    /\ q_fetches' = <<>>

\* the exception leaves _run_identify
Raise ==
    /\ q_pc' = "done"
    /\ q_outcome' = "raised"
    /\ q_out' = <<>>
    /\ q_ml' = <<>>
    /\ q_hash' = <<>>

\* identify_card_embedding has returned ml: mode "ml" falls back to the
\* hash matcher on an empty list, mode "hybrid" always calls it.
EmbReturn(ml) ==
    /\ q_hash' = <<>>
    /\ IF q_in.mode = "ml" /\ ml # <<>>
       THEN q_pc' = "done" /\ q_outcome' = "returned" /\ q_out' = ml /\ q_ml' = <<>>
       ELSE q_pc' = "hash1" /\ q_ml' = ml /\ UNCHANGED <<q_outcome, q_out>>

\* identify_card has returned hash_results
HashReturn(hash_results) ==
    /\ q_hash' = <<>>
    /\ q_ml' = <<>>
    /\ q_pc' = "done"
    /\ q_outcome' = "returned"
    /\ q_out' = IF q_in.mode = "hybrid" THEN HybridSelect(q_ml, hash_results)
                ELSE hash_results

\* A click on Identify, or the next file of a batch.
QStart ==
    /\ q_pc \in {"idle", "done"}
    /\ \E call \in Calls : StartCall(call)
    /\ UNCHANGED <<dbVars, moduleVars, repeatVars, othersOfQuery>>

\* embedding_matcher._get_index, up to the read of _faiss_index: a load
\* from the store whenever the cache holds None.
QEmbGetIndex ==
    /\ q_pc = "emb1"
    /\ m_emb_read' = TRUE
    /\ IF m_faiss = None
       THEN IF LoadRaises(db_embs)
            THEN /\ Raise
                 /\ UNCHANGED <<m_faiss, m_ids, q_faiss>>
            ELSE /\ m_faiss' = load_embedding_index(db_embs).index
                 /\ m_ids' = load_embedding_index(db_embs).card_ids
                 /\ q_faiss' = m_faiss'
                 /\ q_pc' = "emb2"
                 /\ UNCHANGED <<q_outcome, q_out, q_ml, q_hash>>
       ELSE /\ q_faiss' = m_faiss
            /\ q_pc' = "emb2"
            /\ UNCHANGED <<m_faiss, m_ids, q_outcome, q_out, q_ml, q_hash>>
    /\ UNCHANGED <<q_in, q_ids, q_index, q_art, q_fetches>>
    /\ UNCHANGED <<dbVars, m_index, m_art_index, m_failed, m_prio, m_auto_detect, repeatVars,
                   othersOfQuery>>

\* ... and the read of _index_card_ids.
QEmbGetIds ==
    /\ q_pc = "emb2"
    /\ q_ids' = m_ids
    /\ q_pc' = "emb3"
    /\ UNCHANGED <<q_in, q_faiss, q_index, q_art, q_ml, q_hash, q_out, q_outcome, q_fetches>>
    /\ UNCHANGED <<dbVars, moduleVars, repeatVars, othersOfQuery>>

\* The rest of identify_card_embedding: the emptiness test, the query
\* embedding, the search and the result loop.
QEmbSearch ==
    /\ q_pc = "emb3"
    /\ IF q_faiss = None \/ Len(q_faiss[1]) = 0
       THEN /\ EmbReturn(<<>>)
            /\ UNCHANGED <<m_failed, db_details, q_fetches>>
       ELSE IF q_in.img = 0
       THEN /\ Raise
            /\ UNCHANGED <<m_failed, db_details, q_fetches>>
       ELSE \E high \in 0..(NumCrops - 1), fetch_ok \in SUBSET Cards :
                LET query == embed_with_tta(q_in.img, high)
                    top == Search(q_faiss[1], query, m_prio)
                    cands == EmbCandidates(q_ids, q_faiss[1], query, top,
                                           Meta(db_details))
                    e == EnrichAll(cands, db_details, m_failed, fetch_ok, <<>>)
                IN  /\ m_failed' = e.failed
                    /\ db_details' = e.details
                    /\ q_fetches' = q_fetches \o e.fetches
                    /\ IF e.raised THEN Raise ELSE EmbReturn(e.out)
    /\ q_faiss' = None
    /\ q_ids' = <<>>
    /\ UNCHANGED <<q_in, q_index, q_art>>
    /\ UNCHANGED <<db_hashes, db_embs, m_index, m_art_index, m_faiss, m_ids, m_prio,
                   m_auto_detect, m_emb_read, repeatVars, othersOfQuery>>

\* identify_card up to the preprocessing: index = matcher._get_index()
\* (built from the store when the cache holds None), the emptiness test
\* and the read of the image.
QHashGetIndex ==
    /\ q_pc = "hash1"
    /\ LET index == IF m_index = None THEN HashIndexBuild(db_hashes, HASH_TYPES)
                    ELSE m_index[1]
           entry == HashEntry(index, q_in.img)
       IN  /\ m_index' = Some(index)
           /\ IF entry = "empty" THEN HashReturn(<<>>) /\ q_index' = EmptyIndex
              ELSE IF entry = "raise" THEN Raise /\ q_index' = EmptyIndex
              ELSE /\ q_pc' = "hash2"
                   /\ q_index' = index
                   /\ UNCHANGED <<q_ml, q_hash, q_out, q_outcome>>
    /\ UNCHANGED <<q_in, q_faiss, q_ids, q_art, q_fetches>>
    /\ UNCHANGED <<dbVars, m_art_index, m_faiss, m_ids, m_failed, m_prio, m_auto_detect, m_emb_read,
                   repeatVars, othersOfQuery>>

\* art_idx = _get_art_index() if _use_art else None: the callers pass no
\* rectangle and no auto_detect, so _use_art is STICKER_AUTO_DETECT; the art
\* index is built from the store when the cache holds None.
QHashGetArtIndex ==
    /\ q_pc = "hash2"
    /\ LET art == IF m_art_index = None
                  THEN Some(HashIndexBuild(db_hashes, ART_HASH_TYPES))
                  ELSE m_art_index
       IN  /\ q_art' = IF m_auto_detect THEN art ELSE None
           /\ m_art_index' = IF m_auto_detect THEN art ELSE m_art_index
    /\ q_pc' = "hash3"
    /\ UNCHANGED <<q_in, q_faiss, q_ids, q_index, q_ml, q_hash, q_out, q_outcome, q_fetches>>
    /\ UNCHANGED <<dbVars, m_index, m_faiss, m_ids, m_failed, m_prio, m_auto_detect, m_emb_read,
                   repeatVars, othersOfQuery>>

\* The rest of identify_card: the scores, the partial sort and the result
\* loop.
QHashScore ==
    /\ q_pc = "hash3"
    /\ \E fetch_ok \in SUBSET Cards :
           LET distances == FusedDistances(q_index, q_art, q_in.img)
               top == TopIndices(distances, m_prio)
               cands == HashCandidates(q_index.card_ids, distances, top,
                                       Meta(db_details))
               e == EnrichAll(cands, db_details, m_failed, fetch_ok, <<>>)
           IN  /\ m_failed' = e.failed
               /\ db_details' = e.details
               /\ q_fetches' = q_fetches \o e.fetches
               /\ IF e.raised THEN Raise ELSE HashReturn(e.out)
    /\ q_index' = EmptyIndex
    /\ q_art' = None
    /\ UNCHANGED <<q_in, q_faiss, q_ids>>
    /\ UNCHANGED <<db_hashes, db_embs, m_index, m_art_index, m_faiss, m_ids, m_prio,
                   m_auto_detect, m_emb_read, repeatVars, othersOfQuery>>

(***************************************************************************)
(* The setup worker thread (gui/app.py): Rehash All Cards and Re-embed     *)
(* All Cards.  The stores are written in batches; a batch is one card      *)
(* here.                                                                   *)
(***************************************************************************)
othersOfWorker == <<hashVars, hybridVars, queryVars, repeatVars, unitVars>>

\* get_cards_without_hashes / get_cards_without_embeddings on a cleared table
WithImage == {c \in 1..NumCards : db_details[CardId(c)] # "absent"}

\* _run_rehash: clear_all_hashes(), then compute_all_hashes() starts.
WStartRehash ==
    /\ w_pc = "idle"
    /\ db_hashes' = <<>>
    /\ w_pending' = WithImage
    /\ w_pc' = "hashing"
    /\ UNCHANGED <<db_embs, db_details, moduleVars, w_loaded, othersOfWorker>>

\* compute_all_hashes: the futures complete in any order.
WFlushHashes ==
    /\ w_pc = "hashing"
    /\ \E c \in w_pending :
           /\ db_hashes' = upsert_hashes_batch(db_hashes, compute_hashes_for_image(c))
           /\ w_pending' = w_pending \ {c}
    /\ UNCHANGED <<db_embs, db_details, moduleVars, w_pc, w_loaded, othersOfWorker>>

\* reload_index: _index = _HashIndex.build()
WReloadIndex ==
    /\ w_pc = "hashing"
    /\ w_pending = {}
    /\ m_index' = Some(HashIndexBuild(db_hashes, HASH_TYPES))
    /\ w_pc' = "reload_art"
    /\ UNCHANGED <<dbVars, m_art_index, m_faiss, m_ids, m_failed, m_prio, m_auto_detect, m_emb_read,
                   w_pending, w_loaded, othersOfWorker>>

\* reload_index: _art_index = _HashIndex.build(hash_types=_ART_HASH_TYPES)
WReloadArtIndex ==
    /\ w_pc = "reload_art"
    /\ m_art_index' = Some(HashIndexBuild(db_hashes, ART_HASH_TYPES))
    /\ w_pc' = "idle"
    /\ UNCHANGED <<dbVars, m_index, m_faiss, m_ids, m_failed, m_prio, m_auto_detect, m_emb_read,
                   w_pending, w_loaded, othersOfWorker>>

\* _run_reembed: clear_all_embeddings(), then compute_all_embeddings() starts.
WStartReembed ==
    /\ w_pc = "idle"
    /\ db_embs' = <<>>
    /\ w_pending' = WithImage
    /\ w_pc' = "embedding"
    /\ UNCHANGED <<db_hashes, db_details, moduleVars, w_loaded, othersOfWorker>>

\* compute_all_embeddings: the cards in the order of the pending list.
WFlushEmbeddings ==
    /\ w_pc = "embedding"
    /\ \E c \in w_pending :
           /\ \A d \in w_pending : c <= d
           /\ db_embs' = upsert_embeddings_batch(db_embs, EmbRow(c, GoodBlob(c)))
           /\ w_pending' = w_pending \ {c}
    /\ UNCHANGED <<db_hashes, db_details, moduleVars, w_pc, w_loaded, othersOfWorker>>

\* reload_embedding_index: the load and the store to _faiss_index
WReloadEmbedding ==
    /\ w_pc = "embedding"
    /\ w_pending = {}
    /\ m_emb_read' = FALSE
    /\ IF LoadRaises(db_embs)
       THEN w_pc' = "idle" /\ UNCHANGED <<m_faiss, w_loaded>>
       ELSE /\ m_faiss' = load_embedding_index(db_embs).index
            /\ w_loaded' = load_embedding_index(db_embs).card_ids
            /\ w_pc' = "reload_ids"
    /\ UNCHANGED <<dbVars, m_index, m_art_index, m_ids, m_failed, m_prio, m_auto_detect, w_pending,
                   othersOfWorker>>

\* reload_embedding_index: the store to _index_card_ids
WReloadEmbeddingIds ==
    /\ w_pc = "reload_ids"
    /\ m_ids' = w_loaded
    /\ w_loaded' = <<>>
    /\ w_pc' = "idle"
    /\ UNCHANGED <<dbVars, m_index, m_art_index, m_faiss, m_failed, m_prio, m_auto_detect,
                   m_emb_read, w_pending, othersOfWorker>>

(***************************************************************************)
(* Two calls in a row on one input, nothing else running (SpecRepeat).     *)
(***************************************************************************)
RFirst ==
    /\ r_calls = 0
    /\ q_pc = "idle"
    /\ \E call \in Calls : StartCall(call)
    /\ r_calls' = 1
    /\ UNCHANGED <<r_prev, dbVars, moduleVars, othersOfQuery>>

RSecond ==
    /\ r_calls = 1
    /\ q_pc = "done"
    /\ r_prev' = [outcome |-> q_outcome, out |-> q_out, fetches |-> q_fetches]
    /\ StartCall(q_in)
    /\ r_calls' = 2
    /\ UNCHANGED <<dbVars, moduleVars, othersOfQuery>>

(***************************************************************************)
(* The specifications.  Each runs its own part of the state; the rest is   *)
(* held at its idle value.                                                 *)
(***************************************************************************)
HashIdle ==
    /\ h_table = <<>>
    /\ h_scan = ExampleScan
    /\ h_prio = Identity
    /\ h_meta = {}
    /\ h_pc = "idle"
    /\ h_index = EmptyIndex
    /\ h_distances = <<>>
    /\ h_top = <<>>
    /\ h_results = <<>>

HybridIdle ==
    /\ y_ml = <<>>
    /\ y_hash = <<>>
    /\ y_pc = "idle"
    /\ y_out = <<>>

LabelIdle ==
    /\ l_distance = 0
    /\ l_similarity = 0
    /\ l_hash_label = "none"
    /\ l_emb_label = "none"

FuseIdle ==
    /\ f_table = <<>>
    /\ f_mask = None
    /\ f_auto = None
    /\ f_default = TRUE
    /\ f_img = 1
    /\ f_pc = "idle"
    /\ f_art = None
    /\ f_full = <<>>
    /\ f_art_distances = <<>>
    /\ f_distances = <<>>

\* The module globals as embedding_computer defines them.
LoaderStart ==
    /\ g_model = None
    /\ g_device = None
    /\ g_objs = <<>>
    /\ g_pc = [t \in Threads |-> "idle"]
    /\ g_ret = [t \in Threads |-> None]
    /\ g_calls = [t \in Threads |-> 0]

LoaderIdle ==
    /\ g_threads = {}
    /\ g_cuda = FALSE
    /\ LoaderStart

PipelineStart ==
    /\ p_pc = "file"
    /\ p_stored_code = <<>>
    /\ p_stored_vec = <<>>
    /\ p_scan_code = <<>>
    /\ p_img = [w |-> 0, h |-> 0, px |-> <<>>]
    /\ p_i = 0
    /\ p_tta_mask = None
    /\ p_arrays = <<>>
    /\ p_query_vec = <<>>
    /\ p_log = <<>>

PipelineIdle ==
    /\ p_pic = [w |-> 0, h |-> 0, px |-> <<>>]
    /\ p_quad = None
    /\ p_found = None
    /\ p_mask = None
    /\ p_auto = TRUE
    /\ PipelineStart

CatalogStart ==
    /\ c_hash_built = FALSE
    /\ c_emb_built = FALSE
    /\ c_hash_ids = <<>>
    /\ c_emb_ids = <<>>

CatalogIdle ==
    /\ c_hashes = <<>>
    /\ c_embs = <<>>
    /\ CatalogStart

NormIdle ==
    /\ n_vecs = <<>>
    /\ n_avg = <<>>
    /\ n_out = <<>>
    /\ n_pc = "idle"

ExtractIdle ==
    /\ x_img = <<>>
    /\ x_contours = <<>>
    /\ x_k = 0
    /\ x_candidates = <<>>
    /\ x_out = <<>>
    /\ x_pc = "idle"

StickerIdle ==
    /\ s_card = <<>>
    /\ s_manual = <<>>
    /\ s_auto = FALSE
    /\ s_contours = <<>>
    /\ s_k = 0
    /\ s_best = <<>>
    /\ s_best_score = <<>>
    /\ s_mask = <<>>
    /\ s_inpainted = <<>>
    /\ s_pc = "idle"

UnitIdle == LabelIdle /\ FuseIdle /\ LoaderIdle /\ PipelineIdle /\ CatalogIdle /\ NormIdle /\ ExtractIdle /\ StickerIdle

\* The threads before the first click, the caches as the modules define them.
ProcessStart ==
    /\ m_index = None
    /\ m_art_index = None
    /\ m_faiss = None
    /\ m_ids = <<>>
    /\ m_failed = {}
    /\ m_emb_read = FALSE
    /\ q_pc = "idle"
    /\ q_in = NoCall
    /\ q_faiss = None
    /\ q_ids = <<>>
    /\ q_index = EmptyIndex
    /\ q_art = None
    /\ q_ml = <<>>
    /\ q_hash = <<>>
    /\ q_out = <<>>
    /\ q_outcome = "none"
    /\ q_fetches = <<>>
    /\ w_pc = "idle"
    /\ w_pending = {}
    /\ w_loaded = <<>>
    /\ r_calls = 0
    /\ r_prev = [outcome |-> "none", out |-> <<>>, fetches |-> <<>>]

ProcessIdle ==
    /\ ProcessStart
    /\ db_hashes = <<>>
    /\ db_embs = <<>>
    /\ db_details = [c \in Cards |-> "full"]
    /\ m_prio = Identity
    /\ m_auto_detect = TRUE

\* What the cards table holds for the cards of the model.
DetailTables ==
    {[c \in Cards |-> "full"],
     [c \in Cards |-> IF c = CardId(1) THEN "none" ELSE "partial"]}

HashInit ==
    /\ HybridIdle
    /\ ProcessIdle
    /\ UnitIdle
    /\ h_table \in HashTables
    /\ h_scan \in {ExampleScan, MixedScan}
    /\ h_prio \in TiePriorities
    /\ h_meta \in {CardsOf(h_table), CardsOf(h_table) \ {CardId(1)}}
    /\ h_pc = "stored"
    /\ h_index = EmptyIndex
    /\ h_distances = <<>>
    /\ h_top = <<>>
    /\ h_results = <<>>

HashNext == HBuild \/ HEmpty \/ HScore \/ HRank

SpecHash == HashInit /\ [][HashNext]_vars

HybridInit ==
    /\ HashIdle
    /\ ProcessIdle
    /\ UnitIdle
    /\ y_ml \in MlLists
    /\ y_hash \in HashLists
    /\ y_pc = "called"
    /\ y_out = <<>>

HybridNext == YSelect

SpecHybrid == HybridInit /\ [][HybridNext]_vars

\* The stores as an installation can have left them: nothing computed yet,
\* computed by this version, computed by an earlier version, and computed
\* with a damaged blob.
Installations ==
    {[hashes |-> <<>>, embs |-> <<>>],
     [hashes |-> CurrentHashes, embs |-> ReembeddedStore],
     [hashes |-> LegacyHashes, embs |-> OldFormatStore],
     [hashes |-> CurrentHashes, embs |-> TruncatedStore]}

Init ==
    /\ HashIdle
    /\ HybridIdle
    /\ UnitIdle
    /\ ProcessStart
    /\ \E inst \in Installations : db_hashes = inst.hashes /\ db_embs = inst.embs
    /\ db_details = [c \in Cards |-> "full"]
    /\ m_prio = Identity
    /\ m_auto_detect = TRUE

Next ==
    \/ QStart
    \/ QEmbGetIndex
    \/ QEmbGetIds
    \/ QEmbSearch
    \/ QHashGetIndex
    \/ QHashGetArtIndex
    \/ QHashScore
    \/ WStartRehash
    \/ WFlushHashes
    \/ WReloadIndex
    \/ WReloadArtIndex
    \/ WStartReembed
    \/ WFlushEmbeddings
    \/ WReloadEmbedding
    \/ WReloadEmbeddingIds

Spec == Init /\ [][Next]_vars

RepeatNext ==
    \/ RFirst
    \/ RSecond
    \/ QEmbGetIndex
    \/ QEmbGetIds
    \/ QEmbSearch
    \/ QHashGetIndex
    \/ QHashGetArtIndex
    \/ QHashScore

RepeatInit ==
    /\ HashIdle
    /\ HybridIdle
    /\ UnitIdle
    /\ ProcessStart
    /\ \E inst \in Installations : db_hashes = inst.hashes /\ db_embs = inst.embs
    /\ db_details \in DetailTables
    /\ m_prio \in TiePriorities
    /\ m_auto_detect \in BOOLEAN

SpecRepeat == RepeatInit /\ [][RepeatNext]_vars


(***************************************************************************)
(* Claims on the hash pipeline (SpecHash).                                 *)
(***************************************************************************)
ResultCards(results) == {results[p].card_id : p \in DOMAIN results}

C3_TiesInRowOrder ==
    h_pc = "ranked" =>
        \A p, q \in DOMAIN h_top :
            (p < q /\ h_distances[h_top[p]] = h_distances[h_top[q]])
                => h_top[p] < h_top[q]

ExampleDistances == <<1, 3, 1, 1, 1>>
ClaimedDistances == <<1, 3, 2, 2, 2>>

HasRow(table, cid, ht) ==
    \E r \in DOMAIN table : table[r].card_id = cid /\ table[r].hash_type = ht
ValueOf(table, cid, ht) ==
    table[CHOOSE r \in DOMAIN table :
              table[r].card_id = cid /\ table[r].hash_type = ht].hash_value

\* non-hex, odd length, wrong length, null
Malformed(v) ==
    \/ v.isnull
    \/ \E i \in DOMAIN v.chars : v.chars[i] \notin HexDigits
    \/ Len(v.chars) # HashBits

\* C10, as claimed: a malformed or missing stored row is the all-zero code
\* in the index and scores the maximum distance (every bit differing)
\* against the query.
C10_MalformedIsZeroAndMax ==
    h_pc \in {"scored", "ranked"} =>
        \A i \in DOMAIN h_index.card_ids : \A k \in DOMAIN h_index.types :
            (~HasRow(h_table, h_index.card_ids[i], h_index.types[k])
                \/ Malformed(ValueOf(h_table, h_index.card_ids[i], h_index.types[k])))
            => /\ h_index.arrays[k][i] = ZeroRow
               /\ KindDists(h_index, k, h_scan)[i] = HashBits


(***************************************************************************)
(* Claims on the hybrid selection (SpecHybrid).                            *)
(***************************************************************************)
\* C1: in hybrid mode the output is the embedding list when it is non-empty
\* and its top similarity is >= 0.75 (inclusive); otherwise the hash list
\* when that is non-empty; otherwise the embedding list.  So the output is
\* empty only when both lists are empty.
C1_HybridPolicy ==
    y_pc = "selected" =>
        /\ (Len(y_ml) > 0 /\ y_ml[1].distance >= EMBEDDING_CONFIDENCE_MED)
               => y_out = y_ml
        /\ (Len(y_ml) = 0 \/ y_ml[1].distance < EMBEDDING_CONFIDENCE_MED)
               => /\ Len(y_hash) > 0 => y_out = y_hash
                  /\ Len(y_hash) = 0 => y_out = y_ml
        /\ y_out = <<>> <=> (y_ml = <<>> /\ y_hash = <<>>)

\* C1 witness: the embedding list is chosen over a non-empty hash list with
\* its top similarity exactly on the threshold.
C1_Witness ==
    /\ y_pc = "selected"
    /\ y_ml # <<>>
    /\ y_hash # <<>>
    /\ y_ml[1].distance = EMBEDDING_CONFIDENCE_MED
    /\ y_out = y_ml

(***************************************************************************)
(* Claims on the process (Spec, SpecRepeat).                               *)
(***************************************************************************)
\* C5: two calls with the same image and matcher mode, the stores and the
\* caches untouched in between, return the same candidate list (ids, order,
\* scores, labels), in hash, ml and hybrid mode.
C5_SameInputSameResult ==
    (r_calls = 2 /\ q_pc = "done" /\ r_prev.outcome = "returned"
        /\ q_outcome = "returned")
    => q_out = r_prev.out

\* The stores between two setup jobs: as installed, or completely recomputed.
CompleteHashStores == {<<>>, CurrentHashes, LegacyHashes} \cup RecomputedStores
CompleteEmbStores == {<<>>, ReembeddedStore, OldFormatStore}

\* C6: the index state a call works with (the full-card index with the art
\* index, the vectors with their card ids) is the one built from one complete
\* store, before or after a reload: never parts of two, never one built from
\* a store that is being recomputed.
C6_CompleteIndexState ==
    /\ q_pc \in {"hash2", "hash3"} =>
           \E T \in CompleteHashStores :
               /\ q_index = HashIndexBuild(T, HASH_TYPES)
               /\ (q_pc = "hash3" /\ q_art # None) =>
                      q_art[1] = HashIndexBuild(T, ART_HASH_TYPES)
    /\ q_pc = "emb3" =>
           \E T \in CompleteEmbStores :
               /\ q_faiss = load_embedding_index(T).index
               /\ q_ids = load_embedding_index(T).card_ids

\* C7: a step of an identify call leaves an index alone once it exists or has
\* been read: the hash and art indexes once built, the vectors and their card
\* ids once a call has read them since the last reload.
C7_IdentifyKeepsIndex ==
    [][UNCHANGED workerVars =>
          /\ m_index # None => m_index' = m_index
          /\ m_art_index # None => m_art_index' = m_art_index
          /\ m_emb_read => (m_faiss' = m_faiss /\ m_ids' = m_ids)]_vars

\* C8: a matcher whose index is empty returns the empty list and raises
\* nothing, whatever the image: identify_card ends the call with the list of
\* the embedding matcher (empty unless in hybrid mode), identify_card_embedding
\* hands the empty list to the dispatcher, which goes on to the hash matcher.
C8_EmptyIndexEmptyList ==
    [][/\ (q_pc = "hash1" /\ q_pc' # "hash1" /\ is_empty(m_index'[1])) =>
              (q_pc' = "done" /\ q_outcome' = "returned" /\ q_out' = q_ml)
       /\ (q_pc = "emb3" /\ q_pc' # "emb3" /\ q_faiss = None) =>
              (q_pc' = "hash1" /\ q_outcome' # "raised" /\ q_ml' = <<>>)]_vars

\* The hash matcher was given a file that does not decode while its index was
\* empty, and returned the empty list.
C8_Witness ==
    /\ q_pc = "done"
    /\ q_in.mode = "hash"
    /\ q_in.img = 0
    /\ m_index = Some(EmptyIndex)
    /\ q_outcome = "returned"
    /\ q_out = <<>>

\* C9: a call on an image that does not decode ends with the exception, never
\* with a list, in every mode and whatever the indexes hold.
C9_CorruptImageRaises ==
    (q_pc = "done" /\ q_in.img = 0) => q_outcome = "raised"

(***************************************************************************)
(* Claims on the stored embeddings (SpecRepeat).                           *)
(***************************************************************************)
\* C11: a stored embedding row that is not exactly _EMBEDDING_DIM float32
\* values never makes the load of the embedding index, and with it the
\* identify call that triggers the load, fail: the step of a call that reads
\* (and, on a cache of None, builds) the index never ends in an exception.
C11_MalformedRowNeverFails ==
    [][q_pc = "emb1" => q_outcome' # "raised"]_vars

(***************************************************************************)
(* The two _confidence_label functions on scores around their thresholds   *)
(* (SpecLabel).                                                            *)
(***************************************************************************)
\* Fused distances from 0 to LabelMargin above CONFIDENCE_MED, in fifths.
LabelDistances == 0..((CONFIDENCE_MED + LabelMargin) * WEIGHT_SUM)

\* Cosine similarities: the ends of the range and LabelMargin steps of 1e-5
\* on each side of the two thresholds.
LabelSimilarities ==
    {0 - 100000, 0, 100000}
    \cup {EMBEDDING_CONFIDENCE_MED + k : k \in (0 - LabelMargin)..LabelMargin}
    \cup {EMBEDDING_CONFIDENCE_HIGH + k : k \in (0 - LabelMargin)..LabelMargin}

\* identify_card: "confidence": _confidence_label(distance)
LHashLabel ==
    /\ l_hash_label = "none"
    /\ l_hash_label' = confidence_label(l_distance)
    /\ UNCHANGED <<l_distance, l_similarity, l_emb_label>>
    /\ UNCHANGED <<hashVars, hybridVars, processVars, othersOfLabel>>

\* identify_card_embedding: "confidence": _confidence_label(similarity)
LEmbLabel ==
    /\ l_emb_label = "none"
    /\ l_emb_label' = embedding_confidence_label(l_similarity)
    /\ UNCHANGED <<l_distance, l_similarity, l_hash_label>>
    /\ UNCHANGED <<hashVars, hybridVars, processVars, othersOfLabel>>

LabelInit ==
    /\ HashIdle
    /\ HybridIdle
    /\ ProcessIdle
    /\ StickerIdle
    /\ ExtractIdle
    /\ NormIdle
    /\ CatalogIdle
    /\ PipelineIdle
    /\ FuseIdle
    /\ LoaderIdle
    /\ l_distance \in LabelDistances
    /\ l_similarity \in LabelSimilarities
    /\ l_hash_label = "none"
    /\ l_emb_label = "none"

LabelNext == LHashLabel \/ LEmbLabel

SpecLabel == LabelInit /\ [][LabelNext]_vars

\* C12: a hash distance d is labelled "high" iff d <= 15, "medium" iff
\* 15 < d <= 40 and "low" otherwise; a similarity s is labelled "high" iff
\* s >= 0.90, "medium" iff 0.75 <= s < 0.90 and "low" otherwise; every score
\* gets exactly one of the three labels, and a score on a threshold gets the
\* higher one.
C12_InclusiveThresholds ==
    /\ l_hash_label # "none" =>
           /\ l_hash_label \in {"high", "medium", "low"}
           /\ l_hash_label = "high" <=> l_distance <= 15 * 5
           /\ l_hash_label = "medium" <=> (15 * 5 < l_distance /\ l_distance <= 40 * 5)
           /\ l_hash_label = "low" <=> l_distance > 40 * 5
    /\ l_emb_label # "none" =>
           /\ l_emb_label \in {"high", "medium", "low"}
           /\ l_emb_label = "high" <=> l_similarity >= 90000
           /\ l_emb_label = "medium" <=> (75000 <= l_similarity /\ l_similarity < 90000)
           /\ l_emb_label = "low" <=> l_similarity < 75000

\* a distance of exactly 40 labelled "medium" and a similarity of exactly
\* 0.90 labelled "high"
C12_Witness ==
    /\ l_distance = 40 * 5
    /\ l_hash_label = "medium"
    /\ l_similarity = 90000
    /\ l_emb_label = "high"

(***************************************************************************)
(* Claims on the enrichment of the candidates (SpecRepeat).                *)
(***************************************************************************)
\* C13: no step of an identify call performs network I/O: from the entry to
\* the return of identify_card or identify_card_embedding, the enrichment of
\* the candidates included, no remote request is issued, whatever the cards
\* table holds.
C13_NoRemoteRequest == q_fetches = <<>>

(***************************************************************************)
(* The art-zone fusion of identify_card(image_path, sticker_mask_px,       *)
(* auto_detect) on stores with and without art-zone rows (SpecFuse).       *)
(***************************************************************************)
\* _use_art
UseArt(sticker_mask_px, auto_detect, default) ==
    sticker_mask_px # None \/ (IF auto_detect # None THEN auto_detect[1] ELSE default)

ArtRows(c) == [k \in DOMAIN ART_HASH_TYPES |-> HashRow(c, ART_HASH_TYPES[k], RefArtCode(c))]

\* Art-zone rows for every card, for the first card only, and for every
\* card in the opposite order of insertion.
ArtForAll == Flatten([c \in 1..NumCards |-> ArtRows(c)])
ArtForFirst == ArtRows(1)
ArtReversed == Flatten([c \in 1..NumCards |-> ArtRows(NumCards + 1 - c)])

\* A store whose phash and phash_art codes differ from those of the other
\* kinds of the same card.
MixedKindRows(c) ==
    [k \in DOMAIN HASH_TYPES |->
        HashRow(c, HASH_TYPES[k], IF k = 1 THEN LegacyCode(c) ELSE RefCode(c))]
    \o [k \in DOMAIN ART_HASH_TYPES |->
        HashRow(c, ART_HASH_TYPES[k], IF k = 1 THEN RefArtCode(c) ELSE LegacyCode(c))]
MixedKindHashes == Flatten([c \in 1..NumCards |-> MixedKindRows(c)])

\* A store in which the first card has only full-card rows and the last
\* card only art-zone rows.
FullOnlyAndArtOnly == compute_hashes_for_image(1) \o ArtRows(NumCards)

FuseTables ==
    {CurrentHashes, LegacyHashes, CurrentHashes \o ArtForAll,
     CurrentHashes \o ArtForFirst, CurrentHashes \o ArtReversed, MixedKindHashes,
     FullOnlyAndArtOnly}

\* a rectangle (x, y, bw, bh) drawn by the user
SampleRect == <<0, 0, 1, 1>>

\* art_idx = _get_art_index() if _use_art else None (the cache holds None)
FGetArt ==
    /\ f_pc = "called"
    /\ f_art' = IF UseArt(f_mask, f_auto, f_default)
                THEN Some(HashIndexBuild(f_table, ART_HASH_TYPES))
                ELSE None
    /\ f_pc' = "art"
    /\ UNCHANGED <<f_table, f_mask, f_auto, f_default, f_img, f_full, f_art_distances,
                   f_distances>>
    /\ UNCHANGED <<hashVars, hybridVars, processVars, othersOfFuse>>

\* full_distances, art_distances and distances
FScore ==
    /\ f_pc = "art"
    /\ LET index == HashIndexBuild(f_table, HASH_TYPES)
       IN  /\ f_full' = score(index, ScanHashes(f_img))
           /\ f_art_distances' = ArtDistances(index, f_art, f_img)
           /\ f_distances' = FusedDistances(index, f_art, f_img)
    /\ f_pc' = "scored"
    /\ UNCHANGED <<f_table, f_mask, f_auto, f_default, f_img, f_art>>
    /\ UNCHANGED <<hashVars, hybridVars, processVars, othersOfFuse>>

FuseInit ==
    /\ HashIdle
    /\ HybridIdle
    /\ ProcessIdle
    /\ StickerIdle
    /\ ExtractIdle
    /\ NormIdle
    /\ CatalogIdle
    /\ PipelineIdle
    /\ LabelIdle
    /\ LoaderIdle
    /\ f_table \in FuseTables
    /\ f_mask \in {None, Some(SampleRect)}
    /\ f_auto \in {None, Some(TRUE), Some(FALSE)}
    /\ f_default \in BOOLEAN
    /\ f_img \in 1..NumImages
    /\ f_pc = "called"
    /\ f_art = None
    /\ f_full = <<>>
    /\ f_art_distances = <<>>
    /\ f_distances = <<>>

FuseNext == FGetArt \/ FScore

SpecFuse == FuseInit /\ [][FuseNext]_vars

\* The rows of the art-zone index of a table, and their distances to the
\* art crop of the query.
ArtIndexOf(table) == HashIndexBuild(table, ART_HASH_TYPES)
ArtDistancesOf(table, img) == score(ArtIndexOf(table), ArtScanHashes(img))

\* occlusion handling is active: a manual rectangle is given or
\* auto-detection is enabled
HandlingActive ==
    \/ f_mask # None
    \/ f_auto = Some(TRUE)
    \/ (f_auto = None /\ f_default)

\* C15: the distance used for ranking is, for every row, the minimum of the
\* full-card and the art-zone fused distance when occlusion handling is
\* active and the art-zone index is non-empty with as many rows as the
\* full-card index; in every other case it is exactly the full-card distance
\* (and the scoring completes).  So it never exceeds the full-card distance.
C15_ArtFusion ==
    f_pc = "scored" =>
        /\ DOMAIN f_distances = DOMAIN f_full
        /\ IF /\ HandlingActive
              /\ Len(ArtIndexOf(f_table).card_ids) > 0
              /\ Len(ArtIndexOf(f_table).card_ids) = Len(f_full)
           THEN \A i \in DOMAIN f_full :
                    f_distances[i] = Min(f_full[i], ArtDistancesOf(f_table, f_img)[i])
           ELSE f_distances = f_full
        /\ \A i \in DOMAIN f_full : f_distances[i] <= f_full[i]

\* a fused ranking in which one row takes its art-zone distance and another
\* keeps its smaller full-card distance
C15_Witness ==
    /\ f_pc = "scored"
    /\ HandlingActive
    /\ \E i, j \in DOMAIN f_distances :
           /\ f_distances[i] < f_full[i]
           /\ f_distances[j] = f_full[j]
           /\ f_full[j] < ArtDistancesOf(f_table, f_img)[j]

\* The Hamming distance between a stored code (hex digits) and a query code
\* (bits): the number of positions at which they differ.
Hamming(stored, bits) ==
    Cardinality({i \in 1..HashBits : DigitValue(stored.chars[i]) # bits[i]})

\* (2*d_phash + d_ahash + d_dhash + d_whash), the numerator over 5, of one
\* card for the kinds types (full-card or art-zone) and the query codes scan
WeightedHamming(table, cid, types, scan) ==
    2 * Hamming(ValueOf(table, cid, types[1]), scan[types[1]])
    + Hamming(ValueOf(table, cid, types[2]), scan[types[2]])
    + Hamming(ValueOf(table, cid, types[3]), scan[types[3]])
    + Hamming(ValueOf(table, cid, types[4]), scan[types[4]])

\* C16: for every index row the fused distance is
\* (2*d_phash + d_ahash + d_dhash + d_whash) / 5, each d the Hamming distance
\* between the query code and the stored code of that kind; the art-zone
\* kinds are weighted the same way; and the fused value lies between 0 and
\* the hash bit length.
C16_WeightedMean ==
    f_pc = "scored" =>
        /\ WEIGHT_SUM = 5
        /\ \A i \in DOMAIN f_full :
               /\ f_full[i] = WeightedHamming(f_table,
                                  HashIndexBuild(f_table, HASH_TYPES).card_ids[i],
                                  HASH_TYPES, ScanHashes(f_img))
               /\ 0 <= f_full[i] /\ f_full[i] <= HashBits * 5
        /\ \A i \in DOMAIN f_art_distances :
               /\ f_art_distances[i] = WeightedHamming(f_table,
                                  ArtIndexOf(f_table).card_ids[i],
                                  ART_HASH_TYPES, ArtScanHashes(f_img))
               /\ 0 <= f_art_distances[i] /\ f_art_distances[i] <= HashBits * 5

\* a row whose phash distance differs from that of its other kinds, in the
\* full-card and in the art-zone index
C16_Witness ==
    /\ f_pc = "scored"
    /\ f_table = MixedKindHashes
    /\ f_art_distances # <<>>
    /\ \E i \in DOMAIN f_full :
           /\ Hamming(ValueOf(f_table, CardId(i), "phash"), ScanHashes(f_img)["phash"])
                  # Hamming(ValueOf(f_table, CardId(i), "ahash"), ScanHashes(f_img)["ahash"])
           /\ Hamming(ValueOf(f_table, CardId(i), "phash_art"), ArtScanHashes(f_img)["phash_art"])
                  # Hamming(ValueOf(f_table, CardId(i), "ahash_art"),
                             ArtScanHashes(f_img)["ahash_art"])
           /\ f_full[i] > 0
           /\ f_art_distances[i] > 0

(***************************************************************************)
(* embedding_computer._get_model, called from the threads g_threads        *)
(* (SpecLoader).  A thread is at "idle", "check" (the test of _model),     *)
(* "device", "create", "eval", "to", "return", or has "returned" or        *)
(* "failed" (the exception left _get_model).                               *)
(***************************************************************************)
Device == IF g_cuda THEN "cuda" ELSE "cpu"

GSet(t, pc) == g_pc' = [g_pc EXCEPT ![t] = pc]

\* a call of _get_model()
GCall(t) ==
    /\ g_pc[t] \in {"idle", "returned", "failed"}
    /\ g_calls[t] < MaxModelCalls
    /\ g_calls' = [g_calls EXCEPT ![t] = @ + 1]
    /\ g_ret' = [g_ret EXCEPT ![t] = None]
    /\ GSet(t, "check")
    /\ UNCHANGED <<g_threads, g_cuda, g_model, g_device, g_objs>>

\* if _model is not None: return _model, _device
GCheck(t) ==
    /\ g_pc[t] = "check"
    /\ IF g_model # None
       THEN /\ g_ret' = [g_ret EXCEPT ![t] = Some([model |-> g_model[1],
                                                    device |-> g_device])]
            /\ GSet(t, "returned")
       ELSE /\ GSet(t, "device")
            /\ UNCHANGED g_ret
    /\ UNCHANGED <<g_threads, g_cuda, g_model, g_device, g_objs, g_calls>>

\* _device = torch.device("cuda" if torch.cuda.is_available() else "cpu")
GDevice(t) ==
    /\ g_pc[t] = "device"
    /\ g_device' = Some(Device)
    /\ GSet(t, "create")
    /\ UNCHANGED <<g_threads, g_cuda, g_model, g_objs, g_ret, g_calls>>

\* _model = timm.create_model(...): a new model object, in training mode
\* and on the CPU, or an exception (no weights in the cache, ...).
GCreate(t) ==
    /\ g_pc[t] = "create"
    /\ \/ /\ g_objs' = Append(g_objs, [eval |-> FALSE, device |-> "cpu"])
          /\ g_model' = Some(Len(g_objs) + 1)
          /\ GSet(t, "eval")
       \/ /\ GSet(t, "failed")
          /\ UNCHANGED <<g_model, g_objs>>
    /\ UNCHANGED <<g_threads, g_cuda, g_device, g_ret, g_calls>>

\* _model.eval(), on the object the global names now
GEval(t) ==
    /\ g_pc[t] = "eval"
    /\ \/ /\ g_objs' = [g_objs EXCEPT ![g_model[1]].eval = TRUE]
          /\ GSet(t, "to")
       \/ /\ GSet(t, "failed")
          /\ UNCHANGED g_objs
    /\ UNCHANGED <<g_threads, g_cuda, g_model, g_device, g_ret, g_calls>>

\* _model.to(_device): moves the object in place, or an exception (out of
\* memory on the device, ...)
GTo(t) ==
    /\ g_pc[t] = "to"
    /\ \/ /\ g_objs' = [g_objs EXCEPT ![g_model[1]].device = g_device[1]]
          /\ GSet(t, "return")
       \/ /\ GSet(t, "failed")
          /\ UNCHANGED g_objs
    /\ UNCHANGED <<g_threads, g_cuda, g_model, g_device, g_ret, g_calls>>

\* return _model, _device
GReturn(t) ==
    /\ g_pc[t] = "return"
    /\ g_ret' = [g_ret EXCEPT ![t] = Some([model |-> g_model[1], device |-> g_device])]
    /\ GSet(t, "returned")
    /\ UNCHANGED <<g_threads, g_cuda, g_model, g_device, g_objs, g_calls>>

othersOfLoaderAll == <<hashVars, hybridVars, processVars, othersOfLoader>>

LCall == (\E t \in g_threads : GCall(t)) /\ UNCHANGED othersOfLoaderAll
LCheck == (\E t \in g_threads : GCheck(t)) /\ UNCHANGED othersOfLoaderAll
LDevice == (\E t \in g_threads : GDevice(t)) /\ UNCHANGED othersOfLoaderAll
LCreate == (\E t \in g_threads : GCreate(t)) /\ UNCHANGED othersOfLoaderAll
LEval == (\E t \in g_threads : GEval(t)) /\ UNCHANGED othersOfLoaderAll
LTo == (\E t \in g_threads : GTo(t)) /\ UNCHANGED othersOfLoaderAll
LReturn == (\E t \in g_threads : GReturn(t)) /\ UNCHANGED othersOfLoaderAll

LoaderInit ==
    /\ HashIdle
    /\ HybridIdle
    /\ ProcessIdle
    /\ StickerIdle
    /\ ExtractIdle
    /\ NormIdle
    /\ CatalogIdle
    /\ PipelineIdle
    /\ LabelIdle
    /\ FuseIdle
    /\ g_threads \in {{"identify"}, Threads}
    /\ g_cuda \in BOOLEAN
    /\ LoaderStart

LoaderNext == LCall \/ LCheck \/ LDevice \/ LCreate \/ LEval \/ LTo \/ LReturn

SpecLoader == LoaderInit /\ [][LoaderNext]_vars

\* C17: in any interleaving of identify and embedding-computation calls
\* from concurrent threads the model is created at most once per process,
\* and every call that returns gets that one model and its device.
C17_CreatedAtMostOnce ==
    /\ Len(g_objs) <= 1
    /\ \A t \in g_threads : g_ret[t] # None => g_ret[t][1].model = 1

\* C18: when the initialisation fails at a step (model creation, eval mode,
\* move to the device), the singleton is left uninitialised, so that the
\* next call initialises again and no call returns a model that is not in
\* eval mode on the device.  Stated for a process in which one thread uses
\* the extractor.
C18_FailureLeavesUninitialised ==
    \A t \in g_threads :
        g_threads = {t} =>
            /\ g_pc[t] = "failed" => g_model = None
            /\ g_ret[t] # None =>
                   /\ g_objs[g_ret[t][1].model].eval
                   /\ g_objs[g_ret[t][1].model].device = Device


\* ---------------------------------------------------------------------------
\* The two preprocessing chains: the one that fills the index
\* (cards/hasher.py, cards/embedding_computer.py) and the one that serves a
\* query (identifier/preprocess.py, identifier/embedding_matcher.py).
\*
\* A picture is [w, h, px]: its size in pixels and the brightness (0..MaxLevel)
\* of each of its columns; it is uniform along its height, so a resize is a
\* resampling of columns, a crop of rows changes only h, and a mask acts on
\* the columns it covers.  A region is [x0, x1, y0, y1], half open, 0-based,
\* as a numpy slice.
\* ---------------------------------------------------------------------------

Max(a, b) == IF a >= b THEN a ELSE b

\* Python's int() of a quotient: rounds towards zero.
TruncDiv(a, b) == IF a >= 0 THEN a \div b ELSE 0 - ((0 - a) \div b)

CARD_ASPECT_H == 88

CARD_ASPECT_W == 63

MIN_CROP == 10

JITTER_PERCENT == 8

OFFSET_DIVISOR == 1000

CLAHE_TILES == 2

CLAHE_ENABLED == TRUE

STICKER_AUTO_DETECT == TRUE

Picture(w, h, blocks) ==
    [w |-> w, h |-> h,
     px |-> [x \in 1..w |-> blocks[((x - 1) * Len(blocks)) \div w + 1]]]

\* cv2.resize / PIL resize to n columns: column i takes the source column
\* under its centre.
Resize(pic, n) ==
    [w |-> n, h |-> n,
     px |-> [i \in 1..n |-> pic.px[((2 * i - 1) * pic.w) \div (2 * n) + 1]]]

CropCols(pic, x0, crop_w) ==
    [w |-> crop_w, h |-> pic.h, px |-> [i \in 1..crop_w |-> pic.px[x0 + i]]]

CropRows(pic, crop_h) == [pic EXCEPT !.h = crop_h]

\* h / w > _CARD_ASPECT
TallerThanCard(pic) == pic.h * CARD_ASPECT_W > pic.w * CARD_ASPECT_H

_center_crop_to_card(pic, n) ==
    IF TallerThanCard(pic)
    THEN Resize(CropRows(pic, (pic.w * CARD_ASPECT_H) \div CARD_ASPECT_W), n)
    ELSE LET crop_w == (pic.h * CARD_ASPECT_W) \div CARD_ASPECT_H
             x0 == (pic.w - crop_w) \div 2
         IN Resize(CropCols(pic, x0, crop_w), n)

\* A numpy slice [start:stop] of an axis of length n, start >= 0: a negative
\* stop counts from the end of the axis.
SliceOf(start, stop, n) ==
    LET lo == Min(start, n)
        hi == IF stop < 0 THEN Max(0, n + stop) ELSE Min(stop, n)
    IN [lo |-> lo, hi |-> Max(lo, hi)]

mask_from_rect(h, w, rect_px) ==
    LET x == rect_px[1]
        y == rect_px[2]
        bw == rect_px[3]
        bh == rect_px[4]
        rows == SliceOf(Max(0, y), Min(h, y + bh), h)
        cols == SliceOf(Max(0, x), Min(w, x + bw), w)
    IN [x0 |-> cols.lo, x1 |-> cols.hi, y0 |-> rows.lo, y1 |-> rows.hi]

IsEmptyRegion(m) == m.x0 >= m.x1 \/ m.y0 >= m.y1

\* cv2.inpaint: a masked pixel is rebuilt from the known pixels next to the
\* mask; with nothing known the picture stays as it is.
inpaint_sticker(pic, m) ==
    IF IsEmptyRegion(m) THEN pic
    ELSE [pic EXCEPT !.px =
            [x \in 1..pic.w |->
                IF x <= m.x0 \/ x > m.x1 THEN pic.px[x]
                ELSE IF m.x0 >= 1 THEN pic.px[m.x0]
                ELSE IF m.x1 < pic.w THEN pic.px[m.x1 + 1]
                ELSE pic.px[x]]]

\* _four_point_transform: the columns inside the quad; None when the quad is
\* narrower than 10 pixels.
_four_point_transform(pic, quad) ==
    IF quad.x1 - quad.x0 < MIN_CROP THEN None
    ELSE Some(CropCols(pic, quad.x0, quad.x1 - quad.x0))

TileOf(x, w) == ((x - 1) * CLAHE_TILES) \div w + 1

TileCols(t, w) == {x \in 1..w : TileOf(x, w) = t}

TileMin(pic, t) ==
    CHOOSE v \in {pic.px[x] : x \in TileCols(t, pic.w)} :
        \A x \in TileCols(t, pic.w) : v <= pic.px[x]

TileMax(pic, t) ==
    CHOOSE v \in {pic.px[x] : x \in TileCols(t, pic.w)} :
        \A x \in TileCols(t, pic.w) : v >= pic.px[x]

\* _apply_clahe: each tile's brightness range is stretched to the full range.
_apply_clahe(pic) ==
    IF ~CLAHE_ENABLED THEN pic
    ELSE [pic EXCEPT !.px =
            [x \in 1..pic.w |->
                LET t == TileOf(x, pic.w)
                    lo == TileMin(pic, t)
                    hi == TileMax(pic, t)
                IN IF hi = lo THEN pic.px[x]
                   ELSE ((pic.px[x] - lo) * MaxLevel) \div (hi - lo)]]

\* imagehash.average_hash: one bit per pixel, set where the pixel is brighter
\* than the mean.
average_hash(pic) ==
    [x \in 1..pic.w |-> IF pic.px[x] * pic.w > SumSeq(pic.px) THEN 1 ELSE 0]

BitDistance(a, b) == Cardinality({i \in DOMAIN a : a[i] # b[i]})

\* The network: a vector of two features, the brightness of the left and of
\* the right half of its input.
Embed(pic) ==
    LET half == pic.w \div 2
    IN <<SumSeq(SubSeq(pic.px, 1, half)), SumSeq(SubSeq(pic.px, half + 1, pic.w))>>

\* Cosine similarity 1.0: the two vectors point the same way.
SameDirection(a, b) ==
    /\ Dot(a, b) > 0
    /\ Dot(a, b) * Dot(a, b) = Dot(a, a) * Dot(b, b)

\* compute_hashes_for_image on the pixels: the file is resized as it is and
\* hashed.
ReferenceCode(pic) == average_hash(Resize(pic, WorkCols))

\* _auto and "sticker_mask_px is None and _auto" of the two preprocess_*
\* functions.
AutoDetects(auto, sticker_mask_px) == sticker_mask_px = None /\ auto

ManualInpainted(pic, sticker_mask_px) ==
    IF sticker_mask_px # None
    THEN inpaint_sticker(pic, mask_from_rect(pic.h, pic.w, sticker_mask_px[1]))
    ELSE pic

AutoInpainted(card, auto, sticker_mask_px, found) ==
    IF AutoDetects(auto, sticker_mask_px) /\ found # None
    THEN inpaint_sticker(card, found[1])
    ELSE card

preprocess_for_embedding(pic, sticker_mask_px, auto, found) ==
    LET img_bgr == ManualInpainted(pic, sticker_mask_px)
        card_bgr == _center_crop_to_card(img_bgr, WorkCols)
    IN _apply_clahe(AutoInpainted(card_bgr, auto, sticker_mask_px, found))

\* compute_embedding_for_image: preprocess_for_embedding(path) with its
\* defaults, then the network.
compute_embedding_for_image(pic, found) ==
    Embed(preprocess_for_embedding(pic, None, STICKER_AUTO_DETECT, found))

ExtractCard(img_bgr, quad) ==
    IF quad # None
    THEN LET warped == _four_point_transform(img_bgr, quad[1])
         IN IF warped # None THEN Resize(warped[1], WorkCols)
            ELSE _center_crop_to_card(img_bgr, WorkCols)
    ELSE _center_crop_to_card(img_bgr, WorkCols)

preprocess_for_hashing(pic, quad, sticker_mask_px, auto, found) ==
    LET img_bgr == ManualInpainted(pic, sticker_mask_px)
        card_bgr == ExtractCard(img_bgr, quad)
    IN _apply_clahe(AutoInpainted(card_bgr, auto, sticker_mask_px, found))

Event(op, pipeline, stage, crop, region) ==
    [op |-> op, pipeline |-> pipeline, stage |-> stage, crop |-> crop,
     region |-> region]

ManualEvents(pipeline, pic, sticker_mask_px) ==
    IF sticker_mask_px # None
    THEN <<Event("inpaint", pipeline, "scan", 0,
                 Some(mask_from_rect(pic.h, pic.w, sticker_mask_px[1])))>>
    ELSE <<>>

AutoEvents(pipeline, auto, sticker_mask_px, found) ==
    IF AutoDetects(auto, sticker_mask_px)
    THEN <<Event("detect", pipeline, "card", 0, found)>>
         \o (IF found # None
             THEN <<Event("inpaint", pipeline, "card", 0, found)>>
             ELSE <<>>)
    ELSE <<>>

\* The crop of iteration i of _embed_with_tta, jitter in percent.
TtaCrop(img, i, jitter) ==
    IF TallerThanCard(img)
    THEN LET crop_h == Max(MIN_CROP,
                           Min((img.w * CARD_ASPECT_H * (100 + jitter))
                                   \div (CARD_ASPECT_W * 100), img.h))
         IN CropRows(img, crop_h)
    ELSE LET crop_w == Max(MIN_CROP,
                           Min((img.h * CARD_ASPECT_W * (100 + jitter))
                                   \div (CARD_ASPECT_H * 100), img.w))
             x_offset == IF i > 0 THEN TruncDiv(jitter * img.w, OFFSET_DIVISOR)
                         ELSE 0
             x0 == Max(0, Min((img.w - crop_w) \div 2 + x_offset,
                              img.w - crop_w))
         IN CropCols(img, x0, crop_w)

DetectOnCropEvery(i, auto, sticker_mask_px) == auto /\ sticker_mask_px = None

\* "i == 0 and _auto and sticker_mask_px is None"
DetectOnCrop(i, auto, sticker_mask_px) ==
    i = 0 /\ auto /\ sticker_mask_px = None

\* random.uniform(-0.08, 0.08), in percent: the two ends and the middle.
Jitters == {0 - JITTER_PERCENT, 0, JITTER_PERCENT}

RECURSIVE SumEmbeds(_)
SumEmbeds(arrays) ==
    IF arrays = <<>> THEN <<0, 0>>
    ELSE LET e == Embed(Head(arrays))
             r == SumEmbeds(Tail(arrays))
         IN <<e[1] + r[1], e[2] + r[2]>>

\* Image files: a reference image of the catalogue's size (in proportion), a
\* picture of exactly the card's shape, a wide scan and a tall scan.
PictureSizes == {<<16, 22>>, <<63, 88>>, <<30, 22>>, <<16, 30>>}

PictureBlocks == {<<0, 3, 1, 2, 2, 1, 3, 0>>, <<3, 3, 0, 1, 2, 0, 1, 3>>,
                  <<0, 0, 1, 1, 2, 2, 3, 3>>}

Pictures == {Picture(d[1], d[2], b) : d \in PictureSizes, b \in PictureBlocks}

QuadsOf(pic) ==
    {None, Some([x0 |-> pic.w \div 8, x1 |-> pic.w - pic.w \div 8])}

StickerRegions == {None, Some([x0 |-> 0, x1 |-> 1, y0 |-> 0, y1 |-> 1])}

\* Manual rectangles (x, y, bw, bh): inside the scan, over its top left
\* corner, over its right edge, and wholly to the left of it.
ManualRects == {<<1, 1, 2, 2>>, <<-1, -1, 3, 3>>, <<14, 0, 5, 5>>,
                <<-5, 0, 3, 2>>}

PHashIndex ==
    /\ p_pc = "file"
    /\ p_stored_code' = ReferenceCode(p_pic)
    /\ p_pc' = "hash_indexed"
    /\ UNCHANGED <<p_pic, p_quad, p_found, p_mask, p_auto, p_stored_vec,
                   p_scan_code, p_img, p_i, p_tta_mask, p_arrays, p_query_vec,
                   p_log>>
    /\ UNCHANGED <<hashVars, hybridVars, processVars, othersOfPipeline>>

PEmbedIndex ==
    /\ p_pc = "hash_indexed"
    /\ p_stored_vec' = compute_embedding_for_image(p_pic, p_found)
    /\ p_pc' = "indexed"
    /\ UNCHANGED <<p_pic, p_quad, p_found, p_mask, p_auto, p_stored_code,
                   p_scan_code, p_img, p_i, p_tta_mask, p_arrays, p_query_vec,
                   p_log>>
    /\ UNCHANGED <<hashVars, hybridVars, processVars, othersOfPipeline>>

\* identify_card up to the scan's code.
PHashQuery ==
    /\ p_pc = "indexed"
    /\ p_scan_code' =
           average_hash(preprocess_for_hashing(p_pic, p_quad, p_mask, p_auto,
                                               p_found))
    /\ p_log' = p_log \o ManualEvents("hash", p_pic, p_mask)
                      \o AutoEvents("hash", p_auto, p_mask, p_found)
    /\ p_pc' = "hashed"
    /\ UNCHANGED <<p_pic, p_quad, p_found, p_mask, p_auto, p_stored_code,
                   p_stored_vec, p_img, p_i, p_tta_mask, p_arrays, p_query_vec>>
    /\ UNCHANGED <<hashVars, hybridVars, processVars, othersOfPipeline>>

\* _embed_with_tta up to the loop.
PTtaStart ==
    /\ p_pc = "hashed"
    /\ p_img' = ManualInpainted(p_pic, p_mask)
    /\ p_log' = p_log \o ManualEvents("tta", p_pic, p_mask)
    /\ p_tta_mask' = None
    /\ p_i' = 0
    /\ p_arrays' = <<>>
    /\ p_pc' = "crops"
    /\ UNCHANGED <<p_pic, p_quad, p_found, p_mask, p_auto, p_stored_code,
                   p_stored_vec, p_scan_code, p_query_vec>>
    /\ UNCHANGED <<hashVars, hybridVars, processVars, othersOfPipeline>>

\* One iteration of the loop.
PTtaCrop ==
    /\ p_pc = "crops"
    /\ p_i < NumCrops
    /\ \E j \in Jitters :
          LET jitter == IF p_i = 0 THEN 0 ELSE j
              resized == Resize(TtaCrop(p_img, p_i, jitter), WorkCols)
              detects == DetectOnCrop(p_i, p_auto, p_mask)
              mask == IF detects THEN p_found ELSE p_tta_mask
          IN /\ p_tta_mask' = mask
             /\ p_arrays' = Append(p_arrays,
                                   IF mask # None
                                   THEN inpaint_sticker(resized, mask[1])
                                   ELSE resized)
             /\ p_log' = p_log
                    \o (IF detects
                        THEN <<Event("detect", "tta", "crop", p_i, p_found)>>
                        ELSE <<>>)
                    \o (IF mask # None
                        THEN <<Event("inpaint", "tta", "crop", p_i, mask)>>
                        ELSE <<>>)
    /\ p_i' = p_i + 1
    /\ UNCHANGED <<p_pic, p_quad, p_found, p_mask, p_auto, p_pc, p_stored_code,
                   p_stored_vec, p_scan_code, p_img, p_query_vec>>
    /\ UNCHANGED <<hashVars, hybridVars, processVars, othersOfPipeline>>

\* The forward pass and the mean of the crops' vectors (kept as their sum:
\* the direction is the same).
PTtaEmbed ==
    /\ p_pc = "crops"
    /\ p_i = NumCrops
    /\ p_query_vec' = SumEmbeds(p_arrays)
    /\ p_pc' = "done"
    /\ UNCHANGED <<p_pic, p_quad, p_found, p_mask, p_auto, p_stored_code,
                   p_stored_vec, p_scan_code, p_img, p_i, p_tta_mask, p_arrays,
                   p_log>>
    /\ UNCHANGED <<hashVars, hybridVars, processVars, othersOfPipeline>>

PipelineInit ==
    /\ HashIdle
    /\ HybridIdle
    /\ ProcessIdle
    /\ StickerIdle
    /\ ExtractIdle
    /\ NormIdle
    /\ CatalogIdle
    /\ LabelIdle
    /\ FuseIdle
    /\ LoaderIdle
    /\ p_pic \in Pictures
    /\ p_quad \in QuadsOf(p_pic)
    /\ p_found \in StickerRegions
    /\ p_mask \in {None} \cup {Some(r) : r \in ManualRects}
    /\ p_auto \in BOOLEAN
    /\ PipelineStart

PipelineNext ==
    \/ PHashIndex
    \/ PEmbedIndex
    \/ PHashQuery
    \/ PTtaStart
    \/ PTtaCrop
    \/ PTtaEmbed

SpecPipeline == PipelineInit /\ [][PipelineNext]_vars
\* C14: identifying a card's own unmodified reference image gives hash
\* distance 0 and embedding similarity 1.0: once both chains have run on the
\* same file, with no manual rectangle, the scan's code equals the stored code
\* and the query vector points the same way as the stored vector.
C14_SameAsIndexed ==
    (p_pc = "done" /\ p_mask = None) =>
        /\ BitDistance(p_stored_code, p_scan_code) = 0
        /\ SameDirection(p_stored_vec, p_query_vec)

TtaDetections == {n \in DOMAIN p_log :
                     p_log[n].op = "detect" /\ p_log[n].pipeline = "tta"}

TtaInpaintsOf(k) == {n \in DOMAIN p_log :
                        /\ p_log[n].op = "inpaint"
                        /\ p_log[n].pipeline = "tta"
                        /\ p_log[n].stage = "crop"
                        /\ p_log[n].crop = k}

\* C19: in one query of NumCrops crops the detection runs at most once, on
\* crop 0 only, and only when auto-detection is on and no manual rectangle was
\* given; every crop made so far was inpainted with exactly the mask that
\* detection returned, and with nothing when it returned none or did not run.
C19_DetectOnceReuse ==
    /\ Cardinality(TtaDetections) <= 1
    /\ \A n \in TtaDetections :
           p_log[n].crop = 0 /\ p_auto /\ p_mask = None
    /\ (p_pc \in {"crops", "done"} /\ p_i > 0) =>
           (TtaDetections # {} <=> (p_auto /\ p_mask = None))
    /\ \A k \in 0..(p_i - 1) :
           IF \E n \in TtaDetections : p_log[n].region # None
           THEN /\ Cardinality(TtaInpaintsOf(k)) = 1
                /\ \A n \in TtaInpaintsOf(k) : \A d \in TtaDetections :
                       p_log[n].region = p_log[d].region
           ELSE TtaInpaintsOf(k) = {}

C19_Witness ==
    /\ p_pc = "done"
    /\ p_i = NumCrops
    /\ TtaDetections # {}
    /\ \A k \in 0..(NumCrops - 1) : TtaInpaintsOf(k) # {}

Cells(m) == {<<x, y>> : x \in m.x0..(m.x1 - 1), y \in m.y0..(m.y1 - 1)}

\* The rectangle (x, y, bw, bh) cut down to a w by h image.
ClippedRect(h, w, rect_px) ==
    [x0 |-> Max(0, rect_px[1]), x1 |-> Min(w, rect_px[1] + rect_px[3]),
     y0 |-> Max(0, rect_px[2]), y1 |-> Min(h, rect_px[2] + rect_px[4])]

InpaintsOf(pipeline) == {n \in DOMAIN p_log :
                            p_log[n].op = "inpaint" /\ p_log[n].pipeline = pipeline}

\* C20: with a manual rectangle, no detection runs in the hash pipeline nor in
\* the embedding pipeline, whatever the auto_detect setting, and each pipeline
\* that has run inpainted once, on the scan, exactly the pixels of the
\* rectangle that lie inside the scan.
C20_ManualRectWins ==
    p_mask # None =>
        /\ \A n \in DOMAIN p_log : p_log[n].op # "detect"
        /\ \A pipeline \in {"hash", "tta"} :
               \A n \in InpaintsOf(pipeline) :
                   /\ p_log[n].stage = "scan"
                   /\ Cells(p_log[n].region[1]) =
                          Cells(ClippedRect(p_pic.h, p_pic.w, p_mask[1]))
        /\ p_pc \in {"hashed", "crops", "done"} =>
               Cardinality(InpaintsOf("hash")) = 1
        /\ p_pc \in {"crops", "done"} => Cardinality(InpaintsOf("tta")) = 1

(***************************************************************************)
(* The excluded sets (specification SpecCatalog): the two indexes built    *)
(* from the stores of a catalogue with cards of several sets.  A card id   *)
(* is "<set id>-<number>".                                                 *)
(***************************************************************************)
CatalogSets ==
    << <<"s", "v">>, <<"A", "1">>, <<"B", "1">>, <<"P", "-", "A">>,
       <<"b", "a", "s", "e", "1">> >>

CatalogCard(k) == [id |-> CatalogSets[k] \o <<"-", "1">>, set_id |-> CatalogSets[k]]

CatalogCards == {CatalogCard(k) : k \in DOMAIN CatalogSets}

\* The rows of the stores for the cards S, in catalogue order.
CatalogHashes(S) ==
    Flatten([k \in DOMAIN CatalogSets |->
        IF CatalogCard(k) \in S
        THEN [t \in DOMAIN HASH_TYPES |->
                 [card_id |-> CatalogCard(k).id, hash_type |-> HASH_TYPES[t],
                  hash_value |-> StoredCode(C0011)]]
        ELSE <<>>])

CatalogEmbeddings(S) ==
    Flatten([k \in DOMAIN CatalogSets |->
        IF CatalogCard(k) \in S
        THEN <<[card_id |-> CatalogCard(k).id, embedding |-> GoodBlob(k)]>>
        ELSE <<>>])

\* matcher._get_index(): _HashIndex.build()
CBuildHashIndex ==
    /\ ~c_hash_built
    /\ c_hash_ids' = HashIndexBuild(c_hashes, HASH_TYPES).card_ids
    /\ c_hash_built' = TRUE
    /\ UNCHANGED <<c_hashes, c_embs, c_emb_built, c_emb_ids>>
    /\ UNCHANGED <<hashVars, hybridVars, processVars, othersOfCatalog>>

\* embedding_matcher._get_index(): _load_embedding_index()
CLoadEmbeddingIndex ==
    /\ ~c_emb_built
    /\ c_emb_ids' = load_embedding_index(c_embs).card_ids
    /\ c_emb_built' = TRUE
    /\ UNCHANGED <<c_hashes, c_embs, c_hash_built, c_hash_ids>>
    /\ UNCHANGED <<hashVars, hybridVars, processVars, othersOfCatalog>>

CatalogInit ==
    /\ HashIdle
    /\ HybridIdle
    /\ ProcessIdle
    /\ StickerIdle
    /\ ExtractIdle
    /\ NormIdle
    /\ LabelIdle
    /\ FuseIdle
    /\ LoaderIdle
    /\ PipelineIdle
    /\ \E S \in SUBSET CatalogCards : c_hashes = CatalogHashes(S)
    /\ \E S \in SUBSET CatalogCards : c_embs = CatalogEmbeddings(S)
    /\ CatalogStart

CatalogNext ==
    \/ CBuildHashIndex
    \/ CLoadEmbeddingIndex

SpecCatalog == CatalogInit /\ [][CatalogNext]_vars

\* str.startswith
StartsWith(x, p) == Len(x) >= Len(p) /\ \A i \in 1..Len(p) : x[i] = p[i]

InExcludedSet(card) ==
    \E k \in DOMAIN EXCLUDED_SET_ID_PREFIXES :
        StartsWith(card.set_id, EXCLUDED_SET_ID_PREFIXES[k])

HasHashes(card) == \E i \in DOMAIN c_hashes : c_hashes[i].card_id = card.id

HasEmbedding(card) == \E i \in DOMAIN c_embs : c_embs[i].card_id = card.id

\* C21: a card with stored hashes is left out of the hash index exactly when
\* its set id starts with 'A', 'B' or 'P-A', and likewise a card with a stored
\* embedding and the embedding index; cards of every other set are indexed.
C21_ExcludedExactlyByPrefix ==
    \A card \in CatalogCards :
        /\ (c_hash_built /\ HasHashes(card)) =>
               (card.id \in Range(c_hash_ids) <=> ~InExcludedSet(card))
        /\ (c_emb_built /\ HasEmbedding(card)) =>
               (card.id \in Range(c_emb_ids) <=> ~InExcludedSet(card))

(***************************************************************************)
(* Claims on the enrichment (SpecRepeat).                                  *)
(***************************************************************************)
FetchedCards(log) == {log[i].card_id : i \in DOMAIN log}

AnsweredCards(log) == {log[i].card_id : i \in {j \in DOMAIN log : log[j].ok}}

\* C22: a card's full record is fetched at most on the first identify that
\* meets it: a card the API answered for during the first call is not
\* requested again by the second call.
C22_FetchedOnce ==
    r_calls = 2 => FetchedCards(q_fetches) \cap AnsweredCards(r_prev.fetches) = {}

\* The calls of _fetch_full_card made by the step being taken.
NewFetchIndexes == (Len(q_fetches) + 1)..Len(q_fetches')

\* C29: _failed_ids only grows; a fetch that fails puts its card id there; no
\* step fetches a card id that is there, on either path of enrich_result; and
\* a candidate whose card id is there is returned with the details the cards
\* table holds for it (None where the table holds nothing).
C29_FailedNeverRefetched ==
    [][/\ m_failed \subseteq m_failed'
       /\ \A i \in NewFetchIndexes :
              /\ q_fetches'[i].card_id \notin m_failed
              /\ ~q_fetches'[i].ok => q_fetches'[i].card_id \in m_failed'
              /\ \A j \in NewFetchIndexes :
                     q_fetches'[j].card_id = q_fetches'[i].card_id => j = i
       /\ q_outcome' = "returned" =>
              \A k \in DOMAIN q_out' :
                  q_out'[k].card_id \in m_failed' =>
                      q_out'[k].details = db_details'[q_out'[k].card_id]]_vars

C29_Witness ==
    /\ r_calls = 2
    /\ q_pc = "done"
    /\ q_outcome = "returned"
    /\ q_fetches = <<>>
    /\ \E k \in DOMAIN q_out :
           /\ q_out[k].card_id \in m_failed
           /\ q_out[k].card_id \in FetchedCards(r_prev.fetches)
           /\ q_out[k].details \in {"none", "partial"}

\* C30: when the API answers for a card, its details are written to the cards
\* table and the identify call that asked returns its candidate list.
C30_FetchedIsStored ==
    (q_pc = "done" /\ AnsweredCards(q_fetches) # {}) =>
        /\ q_outcome = "returned"
        /\ \A c \in AnsweredCards(q_fetches) : db_details[c] = "full"

(***************************************************************************)
(* Claim on the labels of the embedding list (SpecHybrid).                 *)
(***************************************************************************)
\* C28: when hybrid mode returns the embedding list because its top score is
\* at least 0.75, the top candidate is labelled "medium" or "high"; and every
\* candidate of an embedding list carries the label that the thresholds give
\* to the score reported in that candidate.
C28_LabelAgreesWithScore ==
    y_pc = "selected" =>
        /\ (y_ml # <<>> /\ y_out = y_ml
                /\ y_ml[1].distance >= EMBEDDING_CONFIDENCE_MED)
               => y_out[1].confidence \in {"medium", "high"}
        /\ \A k \in DOMAIN y_ml :
               y_ml[k].confidence = embedding_confidence_label(y_ml[k].distance)


(***************************************************************************)
(* Claims on the row order of the two hash indexes (SpecFuse).             *)
(***************************************************************************)
\* Row i of every matrix of an index holds the stored value of card_ids[i]
\* for the kind of that matrix (zeros when the card has no row of the kind).
RowsFollowCardIds(table, index) ==
    \A k \in DOMAIN index.types : \A i \in DOMAIN index.card_ids :
        index.arrays[k][i] =
            IF HasRow(table, index.card_ids[i], index.types[k])
            THEN PackedRow(ValueOf(table, index.card_ids[i], index.types[k]))
            ELSE ZeroRow

\* C26: whenever art-zone fusion is applied, row i of the art-zone index and
\* row i of the full-card index belong to the same card id, for every i; and
\* within each index row i of every hash kind belongs to card_ids[i].  For
\* every content of the hash store.
C26_RowsOfSameCard ==
    (f_pc = "scored" /\ f_art_distances # <<>>) =>
        /\ \A i \in DOMAIN f_full :
               ArtIndexOf(f_table).card_ids[i]
                   = HashIndexBuild(f_table, HASH_TYPES).card_ids[i]
        /\ RowsFollowCardIds(f_table, HashIndexBuild(f_table, HASH_TYPES))
        /\ RowsFollowCardIds(f_table, ArtIndexOf(f_table))


(***************************************************************************)
(* Claims on the card ids of the vector index (Spec).                      *)
(***************************************************************************)
\* the embedding every store of the model holds for a card id
StoredEmbedding(cid) == RefEmbedding(CHOOSE c \in 1..NumCards : CardId(c) = cid)

\* C27: in every identify_card_embedding call the card-id list that names
\* the hits was built together with the searched index: it has as many
\* entries as the index has vectors and row i's vector is the stored
\* embedding of card_ids[i]; also when rows were skipped at load time and
\* when reload_embedding_index runs during the call.
C27_IdsBuiltWithIndex ==
    (q_pc = "emb3" /\ q_faiss # None) =>
        /\ Len(q_ids) = Len(q_faiss[1])
        /\ \A i \in DOMAIN q_ids \cap DOMAIN q_faiss[1] :
               q_faiss[1][i] = StoredEmbedding(q_ids[i])


(***************************************************************************)
(* _embed_with_tta after the forward pass (SpecNorm): vecs, the mean over  *)
(* the crops and the re-normalisation.  A component of a crop vector is a  *)
(* small integer; the mean and the result are kept exactly, as a vector of *)
(* integers over a denominator, so that no rounding of the model enters    *)
(* the norm of the result.                                                 *)
(***************************************************************************)
\* Outputs of the backbone for one crop (the CLS token, not normalised).
CropVectors == {<<3, 4>>, <<-3, -4>>, <<4, 3>>, <<0, 0>>}

RECURSIVE SumVectors(_)
SumVectors(vs) ==
    IF vs = <<>> THEN <<0, 0>>
    ELSE LET r == SumVectors(Tail(vs))
         IN  <<Head(vs)[1] + r[1], Head(vs)[2] + r[2]>>

\* avg = vecs.mean(axis=0)
NMean ==
    /\ n_pc = "embedded"
    /\ n_avg' = [num |-> SumVectors(n_vecs), den |-> Len(n_vecs)]
    /\ n_pc' = "averaged"
    /\ UNCHANGED <<n_vecs, n_out>>
    /\ UNCHANGED <<hashVars, hybridVars, processVars, othersOfNorm>>

\* norm = np.linalg.norm(avg); avg / norm if norm > 0 else avg.
\* norm is sqrt(num . num) / den, so avg / norm is num / sqrt(num . num).
Renormalised(avg) ==
    IF Dot(avg.num, avg.num) > 0
    THEN [num |-> avg.num, den2 |-> Dot(avg.num, avg.num)]
    ELSE [num |-> avg.num, den2 |-> avg.den * avg.den]

NReturn ==
    /\ n_pc = "averaged"
    /\ n_out' = Renormalised(n_avg)
    /\ n_pc' = "returned"
    /\ UNCHANGED <<n_vecs, n_avg>>
    /\ UNCHANGED <<hashVars, hybridVars, processVars, othersOfNorm>>

NormInit ==
    /\ HashIdle
    /\ HybridIdle
    /\ ProcessIdle
    /\ StickerIdle
    /\ ExtractIdle
    /\ LabelIdle
    /\ FuseIdle
    /\ LoaderIdle
    /\ PipelineIdle
    /\ CatalogIdle
    /\ n_vecs \in [1..NumCrops -> CropVectors]
    /\ n_avg = <<>>
    /\ n_out = <<>>
    /\ n_pc = "embedded"

NormNext == NMean \/ NReturn

SpecNorm == NormInit /\ [][NormNext]_vars

\* C23: the vector returned by the test-time-augmented embedding has L2
\* norm 1 within 1e-4 for every input, also when the crop vectors cancel
\* out in the average.  (The squared norm num . num / den2 lies between
\* 0.9998 and 1.0002.)
C23_UnitNorm ==
    n_pc = "returned" =>
        /\ 9998 * n_out.den2 <= 10000 * Dot(n_out.num, n_out.num)
        /\ 10000 * Dot(n_out.num, n_out.num) <= 10002 * n_out.den2


(***************************************************************************)
(* _detect_card_quad and the card extraction of preprocess_for_hashing     *)
(* (SpecExtract).  A contour is [area, verts, w, h, quad_area]: its        *)
(* cv2.contourArea, the number of vertices cv2.approxPolyDP gives for each *)
(* epsilon, and, of the first 4-vertex approximation, the longer of the    *)
(* two widths, the longer of the two heights and the area.                 *)
(***************************************************************************)
MIN_SIDE == 20
ASPECT_TOLERANCE_PERCENT == 30
MIN_AREA_PERCENT == 5
MAX_CONTOURS == 10
NUM_EPSILONS == 4
NUM_STRATEGIES == 3

Contour(area, verts, w, h, quad_area) ==
    [area |-> area, verts |-> verts, w |-> w, h |-> h, quad_area |-> quad_area]

AbsDiff(a, b) == IF a >= b THEN a - b ELSE b - a

\* abs(aspect - card_asp) / card_asp < 0.30, aspect = h / w, card_asp = 88/63
PortraitOk(w, h) ==
    100 * AbsDiff(CARD_ASPECT_W * h, CARD_ASPECT_H * w)
        < ASPECT_TOLERANCE_PERCENT * CARD_ASPECT_H * w

\* abs(aspect - inv_asp) / inv_asp < 0.30, inv_asp = 63/88
LandscapeOk(w, h) ==
    100 * AbsDiff(CARD_ASPECT_H * h, CARD_ASPECT_W * w)
        < ASPECT_TOLERANCE_PERCENT * CARD_ASPECT_W * w

_is_card_shaped(c, img_h, img_w) ==
    /\ ~(c.w < MIN_SIDE \/ c.h < MIN_SIDE)
    /\ (PortraitOk(c.w, c.h) \/ LandscapeOk(c.w, c.h))
    /\ 100 * c.quad_area >= MIN_AREA_PERCENT * (img_h * img_w)

\* the first index of the largest area of a non-empty sequence
FirstLargest(seq) ==
    CHOOSE i \in DOMAIN seq :
        /\ \A j \in DOMAIN seq : seq[j].area <= seq[i].area
        /\ \A j \in 1..(i - 1) : seq[j].area < seq[i].area

Without(seq, i) == [j \in 1..(Len(seq) - 1) |-> IF j < i THEN seq[j] ELSE seq[j + 1]]

\* sorted(contours, key=cv2.contourArea, reverse=True): stable
RECURSIVE SortedByArea(_)
SortedByArea(seq) ==
    IF seq = <<>> THEN <<>>
    ELSE <<seq[FirstLargest(seq)]>> \o SortedByArea(Without(seq, FirstLargest(seq)))

\* the epsilon loop: the first approximation with 4 vertices, if any
IsQuad(c) == \E e \in 1..NUM_EPSILONS : c.verts[e] = 4

\* _try_edges: the candidates one binarisation adds
TryEdges(contours, img_h, img_w) ==
    LET sorted == SortedByArea(contours)
        top == SubSeq(sorted, 1, Min(MAX_CONTOURS, Len(sorted)))
    IN  SelectSeq(top, LAMBDA c : IsQuad(c) /\ _is_card_shaped(c, img_h, img_w))

XTryEdges ==
    /\ x_pc = "detect"
    /\ x_k <= NUM_STRATEGIES
    /\ x_candidates' = x_candidates \o TryEdges(x_contours[x_k], x_img.h, x_img.w)
    /\ x_k' = x_k + 1
    /\ UNCHANGED <<x_img, x_contours, x_out, x_pc>>
    /\ UNCHANGED <<hashVars, hybridVars, processVars, othersOfExtract>>

\* _detect_card_quad, the end: None, or candidates[0] after the stable sort
DetectedQuad(candidates) ==
    IF candidates = <<>> THEN None ELSE Some(SortedByArea(candidates)[1])

\* _four_point_transform on the image: None when degenerate
FourPointTransform(c) ==
    IF c.w < MIN_CROP \/ c.h < MIN_CROP THEN None ELSE Some([w |-> c.w, h |-> c.h])

\* _center_crop_to_card on an image of h rows and w columns: the size of
\* `cropped`; cv2.resize raises on an empty image.
CenterCropSize(h, w) ==
    IF h * CARD_ASPECT_W > w * CARD_ASPECT_H
    THEN [w |-> w, h |-> (w * CARD_ASPECT_H) \div CARD_ASPECT_W]
    ELSE [w |-> (h * CARD_ASPECT_W) \div CARD_ASPECT_H, h |-> h]

CenterCrop(h, w) ==
    LET cropped == CenterCropSize(h, w)
    IN  IF cropped.w = 0 \/ cropped.h = 0
        THEN [kind |-> "raised", of |-> cropped]
        ELSE [kind |-> "crop", of |-> cropped]

\* quad = _detect_card_quad(...) and card_bgr
XExtract ==
    /\ x_pc = "detect"
    /\ x_k > NUM_STRATEGIES
    /\ LET quad == DetectedQuad(x_candidates)
       IN  x_out' = IF quad # None
                    THEN LET warped == FourPointTransform(quad[1])
                         IN  IF warped # None
                             THEN [kind |-> "rectified", of |-> quad[1]]
                             ELSE CenterCrop(x_img.h, x_img.w)
                    ELSE CenterCrop(x_img.h, x_img.w)
    /\ x_pc' = "done"
    /\ UNCHANGED <<x_img, x_contours, x_k, x_candidates>>
    /\ UNCHANGED <<hashVars, hybridVars, processVars, othersOfExtract>>

\* Decoded images (w, h): a scan, a thumbnail, and a strip one pixel high.
ImageSizes == {<<300, 420>>, <<40, 56>>, <<5, 1>>}

Polygon == <<9, 8, 7, 6>>
QuadAtOnce == <<4, 4, 4, 4>>
QuadLater == <<6, 5, 4, 4>>

CardContour == Contour(60000, QuadLater, 200, 280, 56000)
SmallCardContour == Contour(20000, QuadAtOnce, 120, 160, 19200)
StripContour == Contour(38000, QuadAtOnce, 100, 400, 40000)
BlobContour == Contour(80000, Polygon, 0, 0, 0)
SpeckContour == Contour(500, QuadAtOnce, 20, 28, 560)
ThumbContour == Contour(440, QuadAtOnce, 18, 25, 450)
Clutter == [i \in 1..MAX_CONTOURS |-> Contour(9000 - i, Polygon, 0, 0, 0)]

\* What one binarisation finds in an image of the given size.
ContourLists(size) ==
    IF size = <<300, 420>>
    THEN {<<>>, <<SmallCardContour, CardContour>>, <<BlobContour, StripContour>>,
          <<SpeckContour, SmallCardContour>>, Clutter \o <<Contour(8000, QuadAtOnce, 80, 100, 8000)>>}
    ELSE IF size = <<40, 56>>
    THEN {<<>>, <<ThumbContour>>}
    ELSE {<<>>}

ExtractInit ==
    /\ HashIdle
    /\ HybridIdle
    /\ ProcessIdle
    /\ StickerIdle
    /\ LabelIdle
    /\ FuseIdle
    /\ LoaderIdle
    /\ PipelineIdle
    /\ CatalogIdle
    /\ NormIdle
    /\ \E size \in ImageSizes :
           /\ x_img = [w |-> size[1], h |-> size[2]]
           /\ x_contours \in [1..NUM_STRATEGIES -> ContourLists(size)]
    /\ x_k = 1
    /\ x_candidates = <<>>
    /\ x_out = <<>>
    /\ x_pc = "detect"

ExtractNext == XTryEdges \/ XExtract

SpecExtract == ExtractInit /\ [][ExtractNext]_vars

\* The contours the binarisations found, and those that qualify: 4-sided,
\* side ratio within 30% of the card's or of its reciprocal, area at least
\* 5% of the image.
FoundContours == UNION {Range(x_contours[k]) : k \in DOMAIN x_contours}

Qualifies(c) ==
    /\ IsQuad(c)
    /\ PortraitOk(c.w, c.h) \/ LandscapeOk(c.w, c.h)
    /\ 100 * c.quad_area >= MIN_AREA_PERCENT * (x_img.h * x_img.w)

Degenerate(c) == c.w < MIN_CROP \/ c.h < MIN_CROP

\* C24: for every decodable image the extraction yields an image: it
\* rectifies the qualifying candidate of the largest contour area, and uses
\* the centred aspect-locked crop when no candidate qualifies or the
\* rectification is degenerate.
C24_ExtractionAlwaysYields ==
    x_pc = "done" =>
        LET Q == {c \in FoundContours : Qualifies(c)}
        IN  /\ x_out.kind # "raised"
            /\ IF Q = {}
               THEN x_out.kind = "crop"
               ELSE \E c \in Q :
                        /\ \A d \in Q : d.area <= c.area
                        /\ IF Degenerate(c) THEN x_out.kind = "crop"
                           ELSE x_out.kind = "rectified" /\ x_out.of = c


(***************************************************************************)
(* detect_sticker and the auto-detection step of preprocess_for_hashing    *)
(* (SpecSticker).  A contour is [area, verts, x, y, bw, bh, std]: its      *)
(* cv2.contourArea, the number of vertices of its approximation, its       *)
(* bounding rectangle and the mean colour std-dev inside the rectangle.    *)
(***************************************************************************)
STICKER_SIZE_MIN_PERCENT == 1
STICKER_SIZE_MAX_PERCENT == 30
STICKER_FILL_MIN_PERCENT == 70
STICKER_COLOR_STD_MAX == 90
MARGIN_MIN == 2
MARGIN_DIVISOR == 20

StickerContour(area, verts, x, y, bw, bh, std) ==
    [area |-> area, verts |-> verts, x |-> x, y |-> y, bw |-> bw, bh |-> bh,
     std |-> std]

\* Mutant of PassesFilters: no test of the fill ratio.
PassesFiltersAnyFill(c, card_area) ==
    /\ card_area * STICKER_SIZE_MIN_PERCENT <= 100 * c.area
    /\ 100 * c.area <= card_area * STICKER_SIZE_MAX_PERCENT
    /\ c.verts = 4
    /\ ~(c.std > STICKER_COLOR_STD_MAX)

\* The `continue` tests of the loop of detect_sticker, in their order.
PassesFilters(c, card_area) ==
    /\ card_area * STICKER_SIZE_MIN_PERCENT <= 100 * c.area
    /\ 100 * c.area <= card_area * STICKER_SIZE_MAX_PERCENT
    /\ c.verts = 4
    /\ c.bw * c.bh # 0
    /\ ~(100 * c.area < STICKER_FILL_MIN_PERCENT * (c.bw * c.bh))
    /\ ~(c.std > STICKER_COLOR_STD_MAX)

\* score = fill / (mean_std + 1.0), fill = area / (bw * bh)
Score(c) == [num |-> c.area, den |-> c.bw * c.bh * (c.std + 1)]

ScoreGreater(a, b) == a.num * b.den > b.num * a.den

\* preprocess_for_hashing: if sticker_mask_px is None and _auto
SStart ==
    /\ s_pc = "extracted"
    /\ s_pc' = IF s_manual = None /\ s_auto THEN "loop" ELSE "done"
    /\ UNCHANGED <<s_card, s_manual, s_auto, s_contours, s_k, s_best, s_best_score,
                   s_mask, s_inpainted>>
    /\ UNCHANGED <<hashVars, hybridVars, processVars, othersOfSticker>>

\* detect_sticker: one pass of the loop over the contours
SLoop ==
    /\ s_pc = "loop"
    /\ s_k <= Len(s_contours)
    /\ LET cnt == s_contours[s_k]
       IN  IF PassesFilters(cnt, s_card.h * s_card.w)
                /\ ScoreGreater(Score(cnt), s_best_score)
           THEN /\ s_best_score' = Score(cnt)
                /\ s_best' = Some(<<cnt.x, cnt.y, cnt.bw, cnt.bh>>)
           ELSE UNCHANGED <<s_best, s_best_score>>
    /\ s_k' = s_k + 1
    /\ UNCHANGED <<s_card, s_manual, s_auto, s_contours, s_mask, s_inpainted, s_pc>>
    /\ UNCHANGED <<hashVars, hybridVars, processVars, othersOfSticker>>

\* margin = max(2, int(min(bw, bh) * 0.05)) and the slice set to 255
MaskOf(best, h, w) ==
    LET x == best[1]
        y == best[2]
        bw == best[3]
        bh == best[4]
        margin == Max(MARGIN_MIN, Min(bw, bh) \div MARGIN_DIVISOR)
    IN  [x0 |-> Max(0, x - margin), x1 |-> Min(w, x + bw + margin),
         y0 |-> Max(0, y - margin), y1 |-> Min(h, y + bh + margin)]

\* detect_sticker after the loop, and the inpainting when a mask came back
SMask ==
    /\ s_pc = "loop"
    /\ s_k > Len(s_contours)
    /\ s_mask' = IF s_best = None THEN None
                 ELSE Some(MaskOf(s_best[1], s_card.h, s_card.w))
    /\ s_inpainted' = s_mask'
    /\ s_pc' = "done"
    /\ UNCHANGED <<s_card, s_manual, s_auto, s_contours, s_k, s_best, s_best_score>>
    /\ UNCHANGED <<hashVars, hybridVars, processVars, othersOfSticker>>

\* Card images (w, h) and the contours found in them: stickers in a corner
\* and inside, a label with print, a patch of 1% of the card, a region as
\* large as the art box, an outline, a colourful region, a round region.
CardSizes == {<<30, 42>>, <<100, 140>>}

SmallCardContours ==
    {StickerContour(60, 4, 0, 0, 6, 10, 0),
     StickerContour(100, 4, 2, 3, 10, 10, 5),
     StickerContour(90, 4, 18, 30, 12, 10, 60),
     StickerContour(64, 4, 22, 34, 8, 8, 90),
     StickerContour(12, 4, 5, 5, 4, 3, 0),
     StickerContour(400, 4, 4, 6, 20, 20, 10),
     StickerContour(40, 4, 10, 10, 10, 10, 5),
     StickerContour(80, 4, 5, 20, 10, 8, 91),
     StickerContour(80, 6, 5, 20, 10, 10, 5)}

LargeCardContours ==
    {StickerContour(3600, 4, 20, 70, 60, 60, 30),
     StickerContour(140, 4, 0, 0, 14, 10, 0),
     StickerContour(4200, 4, 30, 60, 70, 60, 90),
     StickerContour(4300, 4, 30, 60, 70, 62, 0)}

ContoursIn(size) == IF size = <<30, 42>> THEN SmallCardContours ELSE LargeCardContours

MaxContours == 2

StickerInit ==
    /\ HashIdle
    /\ HybridIdle
    /\ ProcessIdle
    /\ LabelIdle
    /\ FuseIdle
    /\ LoaderIdle
    /\ PipelineIdle
    /\ CatalogIdle
    /\ NormIdle
    /\ ExtractIdle
    /\ \E size \in CardSizes :
           /\ s_card = [w |-> size[1], h |-> size[2]]
           /\ \E n \in 0..MaxContours : s_contours \in [1..n -> ContoursIn(size)]
    /\ s_manual \in {None, Some(SampleRect)}
    /\ s_auto \in BOOLEAN
    /\ s_k = 1
    /\ s_best = None
    /\ s_best_score = [num |-> 0, den |-> 1]
    /\ s_mask = None
    /\ s_inpainted = None
    /\ s_pc = "extracted"

StickerNext == SStart \/ SLoop \/ SMask

SpecSticker == StickerInit /\ [][StickerNext]_vars

\* A contour passes all filters: area between 1% and 30% of the card area,
\* 4-sided approximation, bounding-box fill ratio >= 0.70, colour std-dev
\* not above the configured ceiling.
IsStickerLike(c) ==
    /\ 100 * c.area >= s_card.w * s_card.h
    /\ 100 * c.area <= 30 * (s_card.w * s_card.h)
    /\ c.verts = 4
    /\ 10 * c.area >= 7 * (c.bw * c.bh)
    /\ c.std <= STICKER_COLOR_STD_MAX

StickerLike == {k \in DOMAIN s_contours : IsStickerLike(s_contours[k])}

\* the bounding box of a contour, expanded by the margin on every side and
\* clipped to the card
ExpandedBox(c) ==
    LET m == IF Min(c.bw, c.bh) >= 60 THEN Min(c.bw, c.bh) \div 20 ELSE 2
    IN  [x0 |-> IF c.x - m < 0 THEN 0 ELSE c.x - m,
         x1 |-> IF c.x + c.bw + m > s_card.w THEN s_card.w ELSE c.x + c.bw + m,
         y0 |-> IF c.y - m < 0 THEN 0 ELSE c.y - m,
         y1 |-> IF c.y + c.bh + m > s_card.h THEN s_card.h ELSE c.y + c.bh + m]

\* C25: the auto-detection returns a mask exactly when at least one contour
\* passes all filters; the mask is then the bounding box of the candidate
\* with the highest fill / (std-dev + 1), expanded by the margin and clipped
\* to the image.  When no contour passes and no manual rectangle is given,
\* the step leaves the image as it is.
C25_MaskOfBestCandidate ==
    s_pc = "done" =>
        /\ (s_manual = None /\ s_auto) =>
               /\ s_mask # None <=> StickerLike # {}
               /\ StickerLike # {} =>
                      \E k \in StickerLike :
                          /\ \A j \in StickerLike :
                                 ~ScoreGreater(Score(s_contours[j]), Score(s_contours[k]))
                          /\ s_mask = Some(ExpandedBox(s_contours[k]))
        /\ (StickerLike = {} /\ s_manual = None) => s_inpainted = None

\* two contours pass, the second scores higher, and its box is clipped at
\* the left and the top edge of the card
C25_Witness ==
    /\ s_pc = "done"
    /\ s_manual = None /\ s_auto
    /\ StickerLike = {1, 2}
    /\ ScoreGreater(Score(s_contours[2]), Score(s_contours[1]))
    /\ s_mask # None
    /\ s_mask[1].x0 = 0 /\ s_mask[1].y0 = 0
    /\ s_mask[1] # [x0 |-> s_contours[2].x, x1 |-> s_contours[2].x + s_contours[2].bw,
                    y0 |-> s_contours[2].y, y1 |-> s_contours[2].y + s_contours[2].bh]

=============================================================================
